---- MODULE Spec2Model ----
(***************************************************************************)
(* Verification model of the ESP32 RGB LED strip library:                  *)
(*   - RgbLedController / RgbGuard  (prioritized, non-blocking display)    *)
(*   - LedMatrixParameters          (wiring geometry)                      *)
(*   - PixelVector::shift           (in-place window rotation)             *)
(***************************************************************************)
EXTENDS Integers, Sequences, FiniteSets, TLC

\* ------------------------------------------------------------------------
\* Bounds of the model
\* ------------------------------------------------------------------------

\* Guard objects in the sequential specification
MaxGuards == 3
\* Threads (one guard each) in the concurrent specification
MaxThreads == 2
\* Display priorities range over 0..MaxPriority (uint8_t in the code)
MaxPriority == 1

Guards == 1 .. MaxGuards
Threads == 1 .. MaxThreads
Priorities == 0 .. MaxPriority

\* nullptr
NULL == 0
\* No reacquire() argument pending
NoPriority == -1
\* Pixel buffers handed to show(): pixels1{0x000000} and pixels2{0xFFFFFF}
Frames == {"black", "white"}
NoFrame == "none"

VARIABLES
    \* RgbLedController
    priorityQueue,        \* ::std::vector<const RgbGuard *>
    prioritizedGuard,     \* const RgbGuard * (NULL when nullptr)
    acquireReleaseMutex,  \* owner of the ::std::mutex (NULL when free)
    \* RgbGuard
    priority,             \* RgbGuard::_priority of every guard
    \* callers
    pc,                   \* position of the thread that owns each guard
    op,                   \* the RgbGuard method each thread is executing
    pending,              \* argument of a reacquire() in progress
    frame,                \* buffer of a show() in progress
    ret,                  \* result of the last completed RgbGuard::show
    devCalls,             \* device-level show() calls made by the last show
    \* device
    displayed,            \* the frame last sent to the device
    \* history
    attachOrder,          \* guards in the order their attach completed
    created,              \* live guards in the order they were constructed
                          \* (NoHistory when the order is not recorded)
    \* LedMatrixParameters
    params,               \* row_count, column_count, first_pixel,
                          \* arrangement, wiring
    geoCall,              \* the LedMatrixParameters method called last
    index,                \* pixel index (argument or result)
    row,                  \* pixel row (argument or result)
    col,                  \* pixel column (argument or result)
    canonical,            \* result of canonicalIndex
    paramsBefore,         \* the parameters before the last flips or rotations
    repeat,               \* how many times in a row the last one was called
    \* PixelVector
    pixels,               \* the elements of the vector
    original,             \* the elements before the first call
    touched,              \* the indices read or written by the last call
    calls,                \* the calls made so far, with their arguments
    loop,                 \* the rotation loops of shift, step by step
    \* PixelMatrix
    rows,                 \* PixelMatrix::rows
    columns,              \* PixelMatrix::columns
    cells,                \* the elements of the matrix (its PixelVector)
    cellsBefore,          \* the elements before the last call, when it was
                          \* a shift or a scroll (empty otherwise)
    matCall,              \* the constructor or method called last
    atResult,             \* what the last call of at() did
    \* Pixel
    pixel,                \* the channels red, green and blue of the pixel
    pixelBefore,          \* the channels before the last call
    pixCall,              \* the method called last and its argument
    hueResult,            \* the unsigned int returned by the last hue()
    \* LEDStrip
    brightness,           \* LEDStrip::Implementation::brightness (uint16_t)
    brightCall,           \* the last call of brightness() or brightness(v)
    valueSet,             \* the value given to the last brightness(v)
    valueBefore,          \* the value given to the one before it
    driver,               \* LEDStrip::Implementation::driver (PixelDriver)
    data,                 \* the pixels given to rmt_transmit by show()
    tx                    \* the RMT transaction and its last encoder callback

arbVars == << priorityQueue, prioritizedGuard, acquireReleaseMutex, priority,
              pc, op, pending, frame, ret, devCalls, displayed, attachOrder,
              created >>

geoVars == << params, geoCall, index, row, col, canonical, paramsBefore,
              repeat >>

vecVars == << pixels, original, touched, calls, loop >>

matVars == << rows, columns, cells, cellsBefore, matCall, atResult >>

pixVars == << pixel, pixelBefore, pixCall, hueResult >>

brightVars == << brightness, brightCall, valueSet, valueBefore >>

stripVars == << driver, data, tx >>

vars == << arbVars, geoVars, vecVars, matVars, pixVars, brightVars, stripVars >>

\* canonicalIndex has returned no value.
NoIndex == -1

\* A default-constructed LedMatrixParameters on which no method was called.
GeoIdle ==
    /\ params = [row_count |-> 0, column_count |-> 0,
                 first_pixel |-> "top_left", arrangement |-> "rows",
                 wiring |-> "serpentine"]
    /\ geoCall = "none"
    /\ index = 0
    /\ row = 0
    /\ col = 0
    /\ canonical = NoIndex
    /\ paramsBefore = params
    /\ repeat = 0

\* The colour of a default-constructed Pixel.
Black == 0

\* at() has not been called last.
NoResult == [throws |-> FALSE, index |-> NoIndex]

\* A default-constructed PixelMatrix.
MatIdle ==
    /\ rows = 0
    /\ columns = 0
    /\ cells = << >>
    /\ cellsBefore = << >>
    /\ matCall = [op |-> "PixelMatrix()", args |-> << >>]
    /\ atResult = NoResult

\* An unsigned int of 32 bits, as its two halves of 16 bits.
Unsigned(high, low) == [hi |-> high, lo |-> low]

\* The pixel when no specification of Pixel runs: Pixel::Pixel().
PixIdle ==
    /\ pixel = [red |-> 0, green |-> 0, blue |-> 0]
    /\ pixelBefore = [red |-> 0, green |-> 0, blue |-> 0]
    /\ pixCall = [op |-> "Pixel()", arg |-> 0]
    /\ hueResult = Unsigned(0, 0)

\* A LEDStrip on which brightness has not been called: the factor is 256.
BrightIdle ==
    /\ brightness = 256
    /\ brightCall = [op |-> "none", arg |-> 0, result |-> 0]
    /\ valueSet = 255
    /\ valueBefore = 255

\* No RMT transaction has been started.
TxIdle ==
    [state |-> "idle", symbols_written |-> 0, symbols |-> << >>,
     returned |-> 0, overrun |-> FALSE, done |-> FALSE, reads |-> {}]

\* A LEDStrip that has shown nothing (driver of a WS2812: GRB, msb first).
StripIdle ==
    /\ driver = [pixelFormat |-> "GRB", msbFirst |-> TRUE]
    /\ data = << >>
    /\ tx = TxIdle

\* The rotation loops of PixelVector::shift are not running.
LoopIdle == [pc |-> "idle"]

\* A default-constructed (empty) PixelVector on which no method was called.
VecIdle ==
    /\ pixels = << >>
    /\ original = << >>
    /\ touched = {}
    /\ calls = << >>
    /\ loop = LoopIdle

\* ------------------------------------------------------------------------
\* Helpers on sequences (std::vector)
\* ------------------------------------------------------------------------

Range(s) == { s[i] : i \in 1 .. Len(s) }

\* ::std::find: index of the first element equal to x, Len(s)+1 for end()
RECURSIVE FindFrom(_, _, _)
FindFrom(s, x, i) ==
    IF i > Len(s) THEN i
    ELSE IF s[i] = x THEN i
    ELSE FindFrom(s, x, i + 1)

Find(s, x) == FindFrom(s, x, 1)

\* ::std::vector::erase(iterator)
Erase(s, i) == SubSeq(s, 1, i - 1) \o SubSeq(s, i + 1, Len(s))

\* ::std::max_element with comparator a->priority() < b->priority():
\* the first element that no other element exceeds
RECURSIVE MaxElementFrom(_, _, _, _)
MaxElementFrom(s, prio, i, largest) ==
    IF i > Len(s) THEN largest
    ELSE MaxElementFrom(s, prio, i + 1,
                        IF prio[s[largest]] < prio[s[i]] THEN i ELSE largest)

MaxElement(s, prio) == MaxElementFrom(s, prio, 2, 1)

\* ------------------------------------------------------------------------
\* RgbLedController: bodies of the critical sections
\* ------------------------------------------------------------------------

\* Mutant of AcquireCS: a guard of equal priority replaces the winner
AcquireCS_TieReplaces(queue, winner, prio, guard) ==
    [ queue  |-> Append(queue, guard),
      winner |-> IF winner = NULL \/ prio[guard] >= prio[winner]
                 THEN guard
                 ELSE winner ]

\* RgbLedController::acquire, the part under the lock
AcquireCS(queue, winner, prio, guard) ==
    [ queue  |-> Append(queue, guard),
      winner |-> IF winner = NULL \/ prio[guard] > prio[winner]
                 THEN guard
                 ELSE winner ]

\* Mutant of ReleaseCS: the last guard of maximum priority becomes the
\* winner
ReleaseCS_LastMaximum(queue, winner, prio, guard) ==
    LET erased == Erase(queue, Find(queue, guard))
        last == CHOOSE i \in 1..Len(erased) :
                    \A j \in 1..Len(erased) :
                        \/ prio[erased[j]] < prio[erased[i]]
                        \/ prio[erased[j]] = prio[erased[i]] /\ j <= i
    IN  [ queue  |-> erased,
          winner |-> IF erased = << >> THEN NULL ELSE erased[last] ]

\* Mutant of ReleaseCS: the front of the queue becomes the winner
ReleaseCS_Front(queue, winner, prio, guard) ==
    LET erased == Erase(queue, Find(queue, guard))
    IN  [ queue  |-> erased,
          winner |-> IF erased = << >> THEN NULL ELSE erased[1] ]

\* RgbLedController::release, the part under the lock
\* (the caller guarantees the assertion iterator != end())
ReleaseCS(queue, winner, prio, guard) ==
    LET erased == Erase(queue, Find(queue, guard))
    IN  [ queue  |-> erased,
          winner |-> IF erased = << >>
                     THEN NULL
                     ELSE erased[MaxElement(erased, prio)] ]

\* Mutant of HasPriority: every call is forwarded
HasPriority_Always(winner, guard) == TRUE

\* RgbLedController::show(pixels, guard): the comparison that decides
\* whether the call is forwarded to the device
HasPriority(winner, guard) == guard = winner

\* ------------------------------------------------------------------------
\* Initial state: a controller without guards
\* ------------------------------------------------------------------------

\* The value of created when the order of construction is not recorded.
NoHistory == << NULL >>

\* The new value of created: history, when the order is recorded.
Recorded(history) == IF created = NoHistory THEN created ELSE history

ArbStart ==
    /\ priorityQueue = << >>
    /\ prioritizedGuard = NULL
    /\ acquireReleaseMutex = NULL
    /\ priority = [g \in Guards |-> 0]
    /\ pc = [g \in Guards |-> "unattached"]
    /\ op = [g \in Guards |-> "idle"]
    /\ pending = [g \in Guards |-> NoPriority]
    /\ frame = [g \in Guards |-> NoFrame]
    /\ ret = [g \in Guards |-> "none"]
    /\ devCalls = [g \in Guards |-> 0]
    /\ displayed = NoFrame
    /\ attachOrder = << >>

ArbInit == ArbStart /\ created = NoHistory

\* ------------------------------------------------------------------------
\* Sequential specification: every RgbGuard method runs to completion.
\* frame, ret and devCalls describe the call that ran last.
\* ------------------------------------------------------------------------

Only(g, value, default) == [h \in Guards |-> IF h = g THEN value ELSE default]

NoCall ==
    /\ frame' = [g \in Guards |-> NoFrame]
    /\ ret' = [g \in Guards |-> "none"]
    /\ devCalls' = [g \in Guards |-> 0]

\* RgbGuard::RgbGuard(controller, priority)
Construct(g, p) ==
    /\ pc[g] = "unattached"
    /\ LET prio == [priority EXCEPT ![g] = p]
           cs == AcquireCS(priorityQueue, prioritizedGuard, prio, g)
       IN  /\ priority' = prio
           /\ priorityQueue' = cs.queue
           /\ prioritizedGuard' = cs.winner
    /\ pc' = [pc EXCEPT ![g] = "attached"]
    /\ attachOrder' = Append(attachOrder, g)
    /\ created' = Recorded(Append(created, g))
    /\ NoCall
    /\ UNCHANGED << acquireReleaseMutex, op, pending, displayed >>
    /\ UNCHANGED << geoVars, vecVars, matVars, pixVars,
                    brightVars, stripVars >>

\* RgbGuard::~RgbGuard()
Destroy(g) ==
    /\ pc[g] = "attached"
    /\ LET cs == ReleaseCS(priorityQueue, prioritizedGuard, priority, g)
       IN  /\ priorityQueue' = cs.queue
           /\ prioritizedGuard' = cs.winner
    /\ priority' = [priority EXCEPT ![g] = 0]
    /\ pc' = [pc EXCEPT ![g] = "unattached"]
    /\ attachOrder' = Erase(attachOrder, Find(attachOrder, g))
    /\ created' = Recorded(Erase(created, Find(created, g)))
    /\ NoCall
    /\ UNCHANGED << acquireReleaseMutex, op, pending, displayed >>
    /\ UNCHANGED << geoVars, vecVars, matVars, pixVars,
                    brightVars, stripVars >>

\* RgbGuard::reacquire(priority)
Reacquire(g, p) ==
    /\ pc[g] = "attached"
    /\ IF priority[g] # p
       THEN LET rel == ReleaseCS(priorityQueue, prioritizedGuard, priority, g)
                prio == [priority EXCEPT ![g] = p]
                acq == AcquireCS(rel.queue, rel.winner, prio, g)
            IN  /\ priority' = prio
                /\ priorityQueue' = acq.queue
                /\ prioritizedGuard' = acq.winner
                /\ attachOrder' =
                       Append(Erase(attachOrder, Find(attachOrder, g)), g)
       ELSE UNCHANGED << priority, priorityQueue, prioritizedGuard,
                         attachOrder >>
    /\ NoCall
    /\ UNCHANGED << acquireReleaseMutex, pc, op, pending, displayed,
                    created >>
    /\ UNCHANGED << geoVars, vecVars, matVars, pixVars,
                    brightVars, stripVars >>

\* RgbGuard::show(pixels) -> RgbLedController::show(pixels, guard)
GuardShow(g, f) ==
    /\ pc[g] = "attached"
    /\ IF HasPriority(prioritizedGuard, g)
       THEN /\ displayed' = f
            /\ devCalls' = Only(g, 1, 0)
            /\ ret' = Only(g, "true", "none")
       ELSE /\ displayed' = displayed
            /\ devCalls' = Only(g, 0, 0)
            /\ ret' = Only(g, "false", "none")
    /\ frame' = Only(g, f, NoFrame)
    /\ UNCHANGED << priorityQueue, prioritizedGuard, acquireReleaseMutex,
                    priority, pc, op, pending, attachOrder,
                    created >>
    /\ UNCHANGED << geoVars, vecVars, matVars, pixVars,
                    brightVars, stripVars >>

\* RgbLedController::show(pixels): display ignoring any guard
ControllerShow(f) ==
    /\ displayed' = f
    /\ NoCall
    /\ UNCHANGED << priorityQueue, prioritizedGuard, acquireReleaseMutex,
                    priority, pc, op, pending, attachOrder,
                    created >>
    /\ UNCHANGED << geoVars, vecVars, matVars, pixVars,
                    brightVars, stripVars >>

Init == ArbInit /\ GeoIdle /\ VecIdle /\ MatIdle /\ PixIdle /\ BrightIdle /\ StripIdle

Next ==
    \/ \E g \in Guards, p \in Priorities : Construct(g, p)
    \/ \E g \in Guards : Destroy(g)
    \/ \E g \in Guards, p \in Priorities : Reacquire(g, p)
    \/ \E g \in Guards, f \in Frames : GuardShow(g, f)
    \/ \E f \in Frames : ControllerShow(f)

Spec == Init /\ [][Next]_vars

\* The guards are only constructed and destroyed (no reacquire).
NextAttach ==
    \/ \E g \in Guards, p \in Priorities : Construct(g, p)
    \/ \E g \in Guards : Destroy(g)
    \/ \E g \in Guards, f \in Frames : GuardShow(g, f)

SpecAttach == Init /\ [][NextAttach]_vars

\* The sequential specification, the order of construction being recorded.
InitHist ==
    /\ ArbStart
    /\ created = << >>
    /\ GeoIdle /\ VecIdle /\ MatIdle /\ PixIdle /\ BrightIdle /\ StripIdle

SpecHist == InitHist /\ [][Next]_vars

\* ------------------------------------------------------------------------
\* Concurrent specification: one thread per guard; a method is a sequence
\* of steps, the mutex is taken and released as the code takes it.
\*   "acq_wait" / "rel_wait" : blocked in ::std::lock_guard's constructor
\*   "acq_cs"   / "rel_cs"   : inside the critical section
\*   "forward"               : the comparison of line 168 succeeded, the
\*                             call of show(pixels) has not started yet
\*   "transmit"              : inside the device-level show(pixels)
\* ------------------------------------------------------------------------

\* RgbGuard::RgbGuard, up to the call of controller->acquire(this)
ConstructBegin(t, p) ==
    /\ pc[t] = "unattached"
    /\ priority' = [priority EXCEPT ![t] = p]
    /\ pc' = [pc EXCEPT ![t] = "acq_wait"]
    /\ op' = [op EXCEPT ![t] = "construct"]
    /\ UNCHANGED << priorityQueue, prioritizedGuard, acquireReleaseMutex,
                    pending, frame, ret, devCalls, displayed, attachOrder,
                    created >>
    /\ UNCHANGED << geoVars, vecVars, matVars, pixVars,
                    brightVars, stripVars >>

\* RgbLedController::acquire: lock_guard takes acquireReleaseMutex
AcquireLock(t) ==
    /\ pc[t] = "acq_wait"
    /\ acquireReleaseMutex = NULL
    /\ acquireReleaseMutex' = t
    /\ pc' = [pc EXCEPT ![t] = "acq_cs"]
    /\ UNCHANGED << priorityQueue, prioritizedGuard, priority, op, pending,
                    frame, ret, devCalls, displayed, attachOrder,
                    created >>
    /\ UNCHANGED << geoVars, vecVars, matVars, pixVars,
                    brightVars, stripVars >>

\* RgbLedController::acquire: critical section and unlock
AcquireUnlock(t) ==
    /\ pc[t] = "acq_cs"
    /\ acquireReleaseMutex = t
    /\ LET cs == AcquireCS(priorityQueue, prioritizedGuard, priority, t)
       IN  /\ priorityQueue' = cs.queue
           /\ prioritizedGuard' = cs.winner
    /\ acquireReleaseMutex' = NULL
    /\ pc' = [pc EXCEPT ![t] = "attached"]
    /\ op' = [op EXCEPT ![t] = "idle"]
    /\ attachOrder' = Append(attachOrder, t)
    /\ created' = IF op[t] = "construct"
                  THEN Recorded(Append(created, t)) ELSE created
    /\ UNCHANGED << priority, pending, frame, ret, devCalls, displayed >>
    /\ UNCHANGED << geoVars, vecVars, matVars, pixVars,
                    brightVars, stripVars >>

\* RgbGuard::~RgbGuard, up to the call of controller->release(this)
DestroyBegin(t) ==
    /\ pc[t] = "attached"
    /\ pc' = [pc EXCEPT ![t] = "rel_wait"]
    /\ op' = [op EXCEPT ![t] = "destroy"]
    /\ ret' = [ret EXCEPT ![t] = "none"]
    /\ devCalls' = [devCalls EXCEPT ![t] = 0]
    /\ UNCHANGED << priorityQueue, prioritizedGuard, acquireReleaseMutex,
                    priority, pending, frame, displayed, attachOrder,
                    created >>
    /\ UNCHANGED << geoVars, vecVars, matVars, pixVars,
                    brightVars, stripVars >>

\* RgbGuard::reacquire, up to the call of controller->release(this);
\* the whole method when the priority does not change
ReacquireBegin(t, p) ==
    /\ pc[t] = "attached"
    /\ IF priority[t] # p
       THEN /\ pc' = [pc EXCEPT ![t] = "rel_wait"]
            /\ op' = [op EXCEPT ![t] = "reacquire"]
            /\ pending' = [pending EXCEPT ![t] = p]
       ELSE UNCHANGED << pc, op, pending >>
    /\ ret' = [ret EXCEPT ![t] = "none"]
    /\ devCalls' = [devCalls EXCEPT ![t] = 0]
    /\ UNCHANGED << priorityQueue, prioritizedGuard, acquireReleaseMutex,
                    priority, frame, displayed, attachOrder,
                    created >>
    /\ UNCHANGED << geoVars, vecVars, matVars, pixVars,
                    brightVars, stripVars >>

\* RgbLedController::release: lock_guard takes acquireReleaseMutex
ReleaseLock(t) ==
    /\ pc[t] = "rel_wait"
    /\ acquireReleaseMutex = NULL
    /\ acquireReleaseMutex' = t
    /\ pc' = [pc EXCEPT ![t] = "rel_cs"]
    /\ UNCHANGED << priorityQueue, prioritizedGuard, priority, op, pending,
                    frame, ret, devCalls, displayed, attachOrder,
                    created >>
    /\ UNCHANGED << geoVars, vecVars, matVars, pixVars,
                    brightVars, stripVars >>

\* RgbLedController::release: critical section and unlock; then the
\* destructor ends, or reacquire stores the new priority and goes on to
\* controller->acquire(this)
ReleaseUnlock(t) ==
    /\ pc[t] = "rel_cs"
    /\ acquireReleaseMutex = t
    /\ LET cs == ReleaseCS(priorityQueue, prioritizedGuard, priority, t)
       IN  /\ priorityQueue' = cs.queue
           /\ prioritizedGuard' = cs.winner
    /\ acquireReleaseMutex' = NULL
    /\ attachOrder' = Erase(attachOrder, Find(attachOrder, t))
    /\ created' = IF op[t] = "reacquire"
                  THEN created
                  ELSE Recorded(Erase(created, Find(created, t)))
    /\ IF op[t] = "reacquire"
       THEN /\ priority' = [priority EXCEPT ![t] = pending[t]]
            /\ pending' = [pending EXCEPT ![t] = NoPriority]
            /\ pc' = [pc EXCEPT ![t] = "acq_wait"]
            /\ op' = op
       ELSE /\ priority' = [priority EXCEPT ![t] = 0]
            /\ pending' = pending
            /\ pc' = [pc EXCEPT ![t] = "unattached"]
            /\ op' = [op EXCEPT ![t] = "idle"]
    /\ UNCHANGED << frame, ret, devCalls, displayed >>
    /\ UNCHANGED << geoVars, vecVars, matVars, pixVars,
                    brightVars, stripVars >>

\* Mutant of ShowCompare: the comparison and the forwarded call are made
\* under a lock_guard on acquireReleaseMutex
ShowCompare_Locked(t, f) ==
    /\ pc[t] = "attached"
    /\ acquireReleaseMutex = NULL
    /\ IF HasPriority(prioritizedGuard, t)
       THEN /\ pc' = [pc EXCEPT ![t] = "forward"]
            /\ op' = [op EXCEPT ![t] = "show"]
            /\ frame' = [frame EXCEPT ![t] = f]
            /\ ret' = [ret EXCEPT ![t] = "none"]
            /\ acquireReleaseMutex' = t
       ELSE /\ ret' = [ret EXCEPT ![t] = "false"]
            /\ UNCHANGED << pc, op, frame, acquireReleaseMutex >>
    /\ devCalls' = [devCalls EXCEPT ![t] = 0]
    /\ UNCHANGED << priorityQueue, prioritizedGuard, priority, pending,
                    displayed, attachOrder,
                    created >>
    /\ UNCHANGED << geoVars, vecVars, matVars, pixVars,
                    brightVars, stripVars >>

\* RgbGuard::show -> RgbLedController::show(pixels, guard): the comparison
\* guard == prioritizedGuard, made without taking the mutex
ShowCompare(t, f) ==
    /\ pc[t] = "attached"
    /\ IF HasPriority(prioritizedGuard, t)
       THEN /\ pc' = [pc EXCEPT ![t] = "forward"]
            /\ op' = [op EXCEPT ![t] = "show"]
            /\ frame' = [frame EXCEPT ![t] = f]
            /\ ret' = [ret EXCEPT ![t] = "none"]
       ELSE /\ ret' = [ret EXCEPT ![t] = "false"]
            /\ UNCHANGED << pc, op, frame >>
    /\ devCalls' = [devCalls EXCEPT ![t] = 0]
    /\ UNCHANGED << priorityQueue, prioritizedGuard, acquireReleaseMutex,
                    priority, pending, displayed, attachOrder,
                    created >>
    /\ UNCHANGED << geoVars, vecVars, matVars, pixVars,
                    brightVars, stripVars >>

\* RgbLedController::show(pixels) starts: the frame goes to the device
TransmitBegin(t) ==
    /\ pc[t] = "forward"
    /\ pc' = [pc EXCEPT ![t] = "transmit"]
    /\ displayed' = frame[t]
    /\ devCalls' = [devCalls EXCEPT ![t] = devCalls[t] + 1]
    /\ UNCHANGED << priorityQueue, prioritizedGuard, acquireReleaseMutex,
                    priority, op, pending, frame, ret, attachOrder,
                    created >>
    /\ UNCHANGED << geoVars, vecVars, matVars, pixVars,
                    brightVars, stripVars >>

\* RgbLedController::show(pixels) returns, then show(pixels, guard)
\* returns true
TransmitEnd(t) ==
    /\ pc[t] = "transmit"
    /\ pc' = [pc EXCEPT ![t] = "attached"]
    /\ op' = [op EXCEPT ![t] = "idle"]
    /\ ret' = [ret EXCEPT ![t] = "true"]
    /\ frame' = [frame EXCEPT ![t] = NoFrame]
    /\ UNCHANGED << priorityQueue, prioritizedGuard, acquireReleaseMutex,
                    priority, pending, devCalls, displayed, attachOrder,
                    created >>
    /\ UNCHANGED << geoVars, vecVars, matVars, pixVars,
                    brightVars, stripVars >>

InitConc == ArbInit /\ GeoIdle /\ VecIdle /\ MatIdle /\ PixIdle /\ BrightIdle /\ StripIdle

NextConc ==
    \/ \E t \in Threads, p \in Priorities : ConstructBegin(t, p)
    \/ \E t \in Threads : AcquireLock(t)
    \/ \E t \in Threads : AcquireUnlock(t)
    \/ \E t \in Threads : DestroyBegin(t)
    \/ \E t \in Threads, p \in Priorities : ReacquireBegin(t, p)
    \/ \E t \in Threads : ReleaseLock(t)
    \/ \E t \in Threads : ReleaseUnlock(t)
    \/ \E t \in Threads, f \in Frames : ShowCompare(t, f)
    \/ \E t \in Threads : TransmitBegin(t)
    \/ \E t \in Threads : TransmitEnd(t)

SpecConc == InitConc /\ [][NextConc]_vars

\* ------------------------------------------------------------------------
\* Properties of the display arbiter
\* ------------------------------------------------------------------------

\* Guards whose constructor has run and whose destructor has not
Live == { g \in Guards : pc[g] = "attached" }

\* Position of a guard in the attach history
AttachRank(g) == Find(attachOrder, g)

\* C1: if no guard is live the cached winner is null; otherwise the winner
\* is a member of the live set (priorityQueue) and no live guard has a
\* higher priority.
C1_WinnerInvariant ==
    /\ Range(priorityQueue) = Live
    /\ Live = {} => prioritizedGuard = NULL
    /\ Live # {} =>
           /\ prioritizedGuard \in Range(priorityQueue)
           /\ \A g \in Live : priority[prioritizedGuard] >= priority[g]

\* Three live guards, the winner attached last, after an earlier guard of
\* lower priority
C1_Witness ==
    /\ Cardinality(Live) = 3
    /\ prioritizedGuard = priorityQueue[3]
    /\ priority[priorityQueue[1]] < priority[prioritizedGuard]
    /\ priority[priorityQueue[2]] < priority[prioritizedGuard]

\* C2: RgbGuard::show returns true and calls the device-level show exactly
\* once with its buffer when the guard is the current winner; otherwise it
\* returns false, the device-level show is not called and the displayed
\* frame stays as it was.
C2_ShowOnlyIfWinner ==
    [][ \A g \in Guards, f \in Frames :
            GuardShow(g, f) =>
                IF prioritizedGuard = g
                THEN /\ ret'[g] = "true"
                     /\ devCalls'[g] = 1
                     /\ displayed' = f
                ELSE /\ ret'[g] = "false"
                     /\ devCalls'[g] = 0
                     /\ displayed' = displayed ]_vars

\* A guard that is not the winner has just been refused while the frame of
\* the winner stays on display
C2_Witness ==
    \E g \in Live :
        /\ prioritizedGuard # g
        /\ ret[g] = "false"
        /\ frame[g] = "black"
        /\ displayed = "white"

\* Two live guards share the highest live priority, no other live guard has
\* it, and first was attached before second
TiePair(first, second) ==
    /\ first \in Live
    /\ second \in Live
    /\ first # second
    /\ priority[first] = priority[second]
    /\ \A g \in Live : priority[g] <= priority[first]
    /\ \A g \in Live \ {first, second} : priority[g] < priority[first]
    /\ AttachRank(first) < AttachRank(second)

\* C3: of two guards attached with equal priority, no higher one being
\* live, the first attached wins every show until it detaches; when it
\* detaches the second becomes the winner.
C3_TieBreak ==
    /\ [](\A first, second \in Guards :
              TiePair(first, second) =>
                  /\ HasPriority(prioritizedGuard, first)
                  /\ ~ HasPriority(prioritizedGuard, second))
    /\ [][ \A first, second \in Guards :
               (TiePair(first, second) /\ Destroy(first)) =>
                   prioritizedGuard' = second ]_vars

\* The second of a tied pair has just been refused
C3_Witness ==
    \E first, second \in Guards :
        /\ TiePair(first, second)
        /\ prioritizedGuard = first
        /\ ret[second] = "false"

\* Live guards with a priority strictly above that of t
HigherLive(t) ==
    { h \in Range(priorityQueue) : priority[h] > priority[t] }

\* C4: a device-level show on behalf of a guard starts only while that
\* guard is the current winner: no frame of a guard reaches the device
\* while a strictly higher guard is attached.
C4_TransmitOnlyAsWinner ==
    [][ \A t \in Threads :
            TransmitBegin(t) =>
                /\ prioritizedGuard = t
                /\ HigherLive(t) = {} ]_vars

\* C6: reacquire is one atomic step: whenever another thread can look at
\* the controller, a guard that is inside reacquire is in the live set.
C6_ReacquireAtomic ==
    \A t \in Threads :
        (op[t] = "reacquire" /\ acquireReleaseMutex # t) =>
            t \in Range(priorityQueue)

\* The live guards of maximum priority
MaxLive == { g \in Live : \A h \in Live : priority[h] <= priority[g] }

\* C23: after any sequence of constructions and destructions (no
\* reacquire), also with three or more guards of equal priority and
\* intermediate destructions, the winner is the earliest-attached guard
\* among the live guards of maximum priority.
C23_EarliestOfMaximum ==
    Live # {} =>
        /\ prioritizedGuard \in MaxLive
        /\ \A g \in MaxLive :
               AttachRank(prioritizedGuard) <= AttachRank(g)

\* Three guards of equal priority are live, guard 1 having been destroyed
\* and constructed again after guards 2 and 3: guard 2 is the winner and
\* guard 1 has just been refused.
C23_Witness ==
    /\ attachOrder = << 2, 3, 1 >>
    /\ \A g \in Guards : priority[g] = 1
    /\ prioritizedGuard = 2
    /\ ret[1] = "false"

\* C24: the comparison guard == prioritizedGuard of the guarded show is
\* made inside the critical section of acquireReleaseMutex, so that no
\* other thread is inside acquire or release (writing prioritizedGuard)
\* when it is made.
C24_CompareUnderMutex ==
    [][ \A t \in Threads, f \in Frames :
            ShowCompare(t, f) =>
                /\ acquireReleaseMutex = t
                /\ \A u \in Threads \ {t} :
                       pc[u] \notin {"acq_cs", "rel_cs"} ]_vars

\* Position of a live guard in the order of construction
CreatedRank(g) == Find(created, g)

\* C25, first part: whenever live guards share the maximum priority, the
\* one that was constructed first is the winner, also when it reached that
\* priority through reacquire.
C25_FirstConstructedWins ==
    Live # {} =>
        /\ prioritizedGuard \in MaxLive
        /\ \A g \in MaxLive :
               CreatedRank(prioritizedGuard) <= CreatedRank(g)

\* C25, second part: after g.reacquire(p) with p strictly above every
\* other live priority, g is the winner.
C25_ReacquireAbove ==
    \A g \in Guards, p \in Priorities :
        (/\ Reacquire(g, p)
         /\ \A h \in Live \ {g} : priority[h] < p) => prioritizedGuard' = g

\* C25: for all sequences of guard construction, destruction and
\* reacquire, the first constructed of the live guards of maximum priority
\* is the winner, and a guard that reacquires a priority strictly above
\* every other live priority is the winner.
C25_TieAfterReacquire ==
    [] C25_FirstConstructedWins /\ [][C25_ReacquireAbove]_vars

\* ------------------------------------------------------------------------
\* Concurrent specification with fairness: a thread that can take a step
\* eventually takes it (weak fairness on every step of a method).  Starting
\* a method is up to the caller, and the end of a transmission is up to
\* the device: neither is assumed.
\* ------------------------------------------------------------------------

ThreadFairness(t) ==
    /\ WF_vars(AcquireLock(t))
    /\ WF_vars(AcquireUnlock(t))
    /\ WF_vars(ReleaseLock(t))
    /\ WF_vars(ReleaseUnlock(t))
    /\ WF_vars(TransmitBegin(t))

SpecLive == InitConc /\ [][NextConc]_vars /\ \A t \in Threads : ThreadFairness(t)

\* The thread is inside a constructor, destructor, reacquire or show that
\* has not reached the device
InCall(t) == pc[t] \in {"acq_wait", "acq_cs", "rel_wait", "rel_cs", "forward"}

\* The method has returned, or the thread is inside its own transmission
Settled(t) == pc[t] \in {"unattached", "attached", "transmit"}

\* A thread never holds the mutex while it forwards a frame to the device
NoLockWhileTransmitting ==
    \A t \in Threads :
        acquireReleaseMutex = t => pc[t] \in {"acq_cs", "rel_cs"}

\* The mutex does not starve a waiter: strong fairness of the acquisitions
LockFairness ==
    \A t \in Threads : SF_vars(AcquireLock(t) \/ ReleaseLock(t))

MaxRows == 4

MaxColumns == 4

FirstPixels == {"top_left", "top_right", "bottom_left", "bottom_right"}

Arrangements == {"rows", "columns"}

Wirings == {"serpentine", "linear"}

\* Every matrix definition with at least one row and one column.
MatrixParameters ==
    [row_count : 1..MaxRows, column_count : 1..MaxColumns,
     first_pixel : FirstPixels, arrangement : Arrangements,
     wiring : Wirings]

Size(m) == m.row_count * m.column_count

INV(size, value) == (size - 1) - value

IsRight(m) == m.first_pixel = "top_right" \/ m.first_pixel = "bottom_right"

IsBottom(m) == m.first_pixel = "bottom_left" \/ m.first_pixel = "bottom_right"

\* Variant of indexToCoordinates that ignores the wiring (never reverses).
indexToCoordinates_NoReverse(m, idx) ==
    IF m.arrangement = "rows"
    THEN LET r0 == idx \div m.column_count
             c0 == idx % m.column_count
             c1 == IF IsRight(m) THEN INV(m.column_count, c0) ELSE c0
             r1 == IF IsBottom(m) THEN INV(m.row_count, r0) ELSE r0
         IN  << r1, c1 >>
    ELSE LET c0 == idx \div m.row_count
             r0 == idx % m.row_count
             r1 == IF IsBottom(m) THEN INV(m.row_count, r0) ELSE r0
             c1 == IF IsRight(m) THEN INV(m.column_count, c0) ELSE c0
         IN  << r1, c1 >>

\* Variant of indexToCoordinates that divides by the wrong dimension when
\* the matrix is arranged in rows.
indexToCoordinates_SwappedCounts(m, idx) ==
    IF m.arrangement = "rows"
    THEN LET r0 == idx \div m.row_count
             c0 == idx % m.row_count
             reverse == (r0 % 2 = 1) /\ (m.wiring = "serpentine")
             c1 == IF IsRight(m) # reverse
                   THEN INV(m.column_count, c0) ELSE c0
             r1 == IF IsBottom(m) THEN INV(m.row_count, r0) ELSE r0
         IN  << r1, c1 >>
    ELSE LET c0 == idx \div m.row_count
             r0 == idx % m.row_count
             reverse == (c0 % 2 = 1) /\ (m.wiring = "serpentine")
             r1 == IF IsBottom(m) # reverse
                   THEN INV(m.row_count, r0) ELSE r0
             c1 == IF IsRight(m) THEN INV(m.column_count, c0) ELSE c0
         IN  << r1, c1 >>

\* indexToCoordinates: << row, col >> of the pixel at position idx of the
\* chain.  reverse is computed from the row (column) in wiring order, before
\* that row (column) is mirrored.
indexToCoordinates(m, idx) ==
    IF m.arrangement = "rows"
    THEN LET r0 == idx \div m.column_count
             c0 == idx % m.column_count
             reverse == (r0 % 2 = 1) /\ (m.wiring = "serpentine")
             c1 == IF IsRight(m) # reverse
                   THEN INV(m.column_count, c0) ELSE c0
             r1 == IF IsBottom(m) THEN INV(m.row_count, r0) ELSE r0
         IN  << r1, c1 >>
    ELSE LET c0 == idx \div m.row_count
             r0 == idx % m.row_count
             reverse == (c0 % 2 = 1) /\ (m.wiring = "serpentine")
             r1 == IF IsBottom(m) # reverse
                   THEN INV(m.row_count, r0) ELSE r0
             c1 == IF IsRight(m) THEN INV(m.column_count, c0) ELSE c0
         IN  << r1, c1 >>

\* coordinatesToIndex: the switch on first_pixel.  The parity tested is
\* that of the row (column) given as argument.
coordinatesToIndex(m, r, c) ==
    LET R == m.row_count
        C == m.column_count
        oddRow == (r % 2 = 1) /\ (m.wiring = "serpentine")
        oddCol == (c % 2 = 1) /\ (m.wiring = "serpentine")
    IN  CASE m.first_pixel = "top_left" ->
                IF m.arrangement = "rows"
                THEN IF oddRow THEN (r * C) + INV(C, c) ELSE (r * C) + c
                ELSE IF oddCol THEN (c * R) + INV(R, r) ELSE (c * R) + r
          [] m.first_pixel = "top_right" ->
                IF m.arrangement = "rows"
                THEN IF oddRow THEN (r * C) + c ELSE (r * C) + INV(C, c)
                ELSE IF oddCol THEN (INV(C, c) * R) + INV(R, r)
                               ELSE (INV(C, c) * R) + r
          [] m.first_pixel = "bottom_left" ->
                IF m.arrangement = "rows"
                THEN IF oddRow THEN (INV(R, r) * C) + INV(C, c)
                               ELSE (INV(R, r) * C) + c
                ELSE IF oddCol THEN (c * R) + r ELSE (c * R) + INV(R, r)
          [] m.first_pixel = "bottom_right" ->
                IF m.arrangement = "rows"
                THEN IF oddRow THEN (INV(R, r) * C) + c
                               ELSE (INV(R, r) * C) + INV(C, c)
                ELSE IF oddCol THEN (INV(C, c) * R) + r
                               ELSE (INV(C, c) * R) + INV(R, r)

canonicalIndex(m, idx) ==
    LET rc == indexToCoordinates(m, idx)
    IN  (rc[1] * m.column_count) + rc[2]

\* A matrix definition is chosen; no method has been called on it yet.
GeoInit ==
    /\ params \in MatrixParameters
    /\ geoCall = "none"
    /\ index = 0
    /\ row = 0
    /\ col = 0
    /\ canonical = NoIndex
    /\ paramsBefore = params
    /\ repeat = 0

IndexToCoordinatesCall(idx) ==
    /\ idx < Size(params)
    /\ geoCall' = "indexToCoordinates"
    /\ index' = idx
    /\ row' = indexToCoordinates(params, idx)[1]
    /\ col' = indexToCoordinates(params, idx)[2]
    /\ canonical' = NoIndex
    /\ UNCHANGED << params, paramsBefore, repeat >>
    /\ UNCHANGED << arbVars, vecVars, matVars, pixVars,
                    brightVars, stripVars >>

CoordinatesToIndexCall(r, c) ==
    /\ r < params.row_count
    /\ c < params.column_count
    /\ geoCall' = "coordinatesToIndex"
    /\ row' = r
    /\ col' = c
    /\ index' = coordinatesToIndex(params, r, c)
    /\ canonical' = NoIndex
    /\ UNCHANGED << params, paramsBefore, repeat >>
    /\ UNCHANGED << arbVars, vecVars, matVars, pixVars,
                    brightVars, stripVars >>

CanonicalIndexCall(idx) ==
    /\ idx < Size(params)
    /\ geoCall' = "canonicalIndex"
    /\ index' = idx
    /\ row' = indexToCoordinates(params, idx)[1]
    /\ col' = indexToCoordinates(params, idx)[2]
    /\ canonical' = canonicalIndex(params, idx)
    /\ UNCHANGED << params, paramsBefore, repeat >>
    /\ UNCHANGED << arbVars, vecVars, matVars, pixVars,
                    brightVars, stripVars >>

InitGeo == ArbInit /\ GeoInit /\ VecIdle /\ MatIdle /\ PixIdle /\ BrightIdle /\ StripIdle

NextGeo ==
    \/ \E idx \in 0..(MaxRows * MaxColumns - 1) : IndexToCoordinatesCall(idx)
    \/ \E r \in 0..(MaxRows - 1), c \in 0..(MaxColumns - 1) :
          CoordinatesToIndexCall(r, c)
    \/ \E idx \in 0..(MaxRows * MaxColumns - 1) : CanonicalIndexCall(idx)

SpecGeo == InitGeo /\ [][NextGeo]_vars

\* ------------------------------------------------------------------------
\* LedMatrixParameters: flipVertical, flipHorizontal, rotate90clockwise
\* ------------------------------------------------------------------------

\* Bound: the number of calls in a row after which a new count begins.
FullTurn == 4

\* Variant of flipVertical that mirrors the first pixel across both axes.
flipVertical_BothAxes(m) ==
    [m EXCEPT !.first_pixel =
        CASE m.first_pixel = "top_left" -> "bottom_right"
          [] m.first_pixel = "top_right" -> "bottom_left"
          [] m.first_pixel = "bottom_left" -> "top_right"
          [] m.first_pixel = "bottom_right" -> "top_left"]

\* LedMatrixParameters::flipVertical
flipVertical(m) ==
    [m EXCEPT !.first_pixel =
        CASE m.first_pixel = "top_left" -> "bottom_left"
          [] m.first_pixel = "top_right" -> "bottom_right"
          [] m.first_pixel = "bottom_left" -> "top_left"
          [] m.first_pixel = "bottom_right" -> "top_right"]

\* LedMatrixParameters::flipHorizontal
flipHorizontal(m) ==
    [m EXCEPT !.first_pixel =
        CASE m.first_pixel = "top_left" -> "top_right"
          [] m.first_pixel = "top_right" -> "top_left"
          [] m.first_pixel = "bottom_left" -> "bottom_right"
          [] m.first_pixel = "bottom_right" -> "bottom_left"]

\* Variant of rotate90clockwise that keeps the arrangement.
rotate90clockwise_KeepsArrangement(m) ==
    [m EXCEPT !.first_pixel =
        CASE m.first_pixel = "top_left" -> "top_right"
          [] m.first_pixel = "top_right" -> "bottom_right"
          [] m.first_pixel = "bottom_left" -> "top_left"
          [] m.first_pixel = "bottom_right" -> "bottom_left"]

\* LedMatrixParameters::rotate90clockwise
rotate90clockwise(m) ==
    [m EXCEPT !.arrangement =
                  IF m.arrangement = "rows" THEN "columns" ELSE "rows",
              !.first_pixel =
        CASE m.first_pixel = "top_left" -> "top_right"
          [] m.first_pixel = "top_right" -> "bottom_right"
          [] m.first_pixel = "bottom_left" -> "top_left"
          [] m.first_pixel = "bottom_right" -> "bottom_left"]

\* The method is called; the calls made in a row are counted up to
\* FullTurn, paramsBefore being the parameters before the first of them.
Mutated(method, m) ==
    /\ params' = m
    /\ geoCall' = method
    /\ IF geoCall = method /\ repeat < FullTurn
       THEN /\ repeat' = repeat + 1
            /\ UNCHANGED paramsBefore
       ELSE /\ repeat' = 1
            /\ paramsBefore' = params
    /\ index' = 0
    /\ row' = 0
    /\ col' = 0
    /\ canonical' = NoIndex
    /\ UNCHANGED << arbVars, vecVars, matVars, pixVars,
                    brightVars, stripVars >>

FlipVerticalCall ==
    /\ params \in MatrixParameters
    /\ Mutated("flipVertical", flipVertical(params))

FlipHorizontalCall ==
    /\ params \in MatrixParameters
    /\ Mutated("flipHorizontal", flipHorizontal(params))

Rotate90ClockwiseCall ==
    /\ params \in MatrixParameters
    /\ Mutated("rotate90clockwise", rotate90clockwise(params))

NextFlip ==
    \/ FlipVerticalCall
    \/ FlipHorizontalCall
    \/ Rotate90ClockwiseCall

SpecFlip == InitGeo /\ [][NextFlip]_vars

\* ------------------------------------------------------------------------
\* Properties of LedMatrixParameters
\* ------------------------------------------------------------------------

\* C7: for every shape, corner, arrangement and wiring, the two conversions
\* are inverse of each other: the coordinates returned by indexToCoordinates
\* convert back to the same index, and the index returned by
\* coordinatesToIndex converts back to the same coordinates.
C7_RoundTrip ==
    /\ geoCall = "indexToCoordinates" =>
          coordinatesToIndex(params, row, col) = index
    /\ geoCall = "coordinatesToIndex" =>
          indexToCoordinates(params, index) = << row, col >>

\* The pixel order of each wiring schema in a matrix of 3 rows and 3
\* columns, rows from top to bottom.
WiringSchema(m) ==
    CASE m.first_pixel = "top_left" /\ m.arrangement = "rows"
            /\ m.wiring = "serpentine" ->
                << <<0, 1, 2>>, <<5, 4, 3>>, <<6, 7, 8>> >>
      [] m.first_pixel = "top_left" /\ m.arrangement = "rows"
            /\ m.wiring = "linear" ->
                << <<0, 1, 2>>, <<3, 4, 5>>, <<6, 7, 8>> >>
      [] m.first_pixel = "top_left" /\ m.arrangement = "columns"
            /\ m.wiring = "serpentine" ->
                << <<0, 5, 6>>, <<1, 4, 7>>, <<2, 3, 8>> >>
      [] m.first_pixel = "top_left" /\ m.arrangement = "columns"
            /\ m.wiring = "linear" ->
                << <<0, 3, 6>>, <<1, 4, 7>>, <<2, 5, 8>> >>
      [] m.first_pixel = "top_right" /\ m.arrangement = "rows"
            /\ m.wiring = "serpentine" ->
                << <<2, 1, 0>>, <<3, 4, 5>>, <<8, 7, 6>> >>
      [] m.first_pixel = "top_right" /\ m.arrangement = "rows"
            /\ m.wiring = "linear" ->
                << <<2, 1, 0>>, <<5, 4, 3>>, <<8, 7, 6>> >>
      [] m.first_pixel = "top_right" /\ m.arrangement = "columns"
            /\ m.wiring = "serpentine" ->
                << <<6, 5, 0>>, <<7, 4, 1>>, <<8, 3, 2>> >>
      [] m.first_pixel = "top_right" /\ m.arrangement = "columns"
            /\ m.wiring = "linear" ->
                << <<6, 3, 0>>, <<7, 4, 1>>, <<8, 5, 2>> >>
      [] m.first_pixel = "bottom_left" /\ m.arrangement = "rows"
            /\ m.wiring = "serpentine" ->
                << <<6, 7, 8>>, <<5, 4, 3>>, <<0, 1, 2>> >>
      [] m.first_pixel = "bottom_left" /\ m.arrangement = "rows"
            /\ m.wiring = "linear" ->
                << <<6, 7, 8>>, <<3, 4, 5>>, <<0, 1, 2>> >>
      [] m.first_pixel = "bottom_left" /\ m.arrangement = "columns"
            /\ m.wiring = "serpentine" ->
                << <<2, 3, 8>>, <<1, 4, 7>>, <<0, 5, 6>> >>
      [] m.first_pixel = "bottom_left" /\ m.arrangement = "columns"
            /\ m.wiring = "linear" ->
                << <<2, 5, 8>>, <<1, 4, 7>>, <<0, 3, 6>> >>
      [] m.first_pixel = "bottom_right" /\ m.arrangement = "rows"
            /\ m.wiring = "serpentine" ->
                << <<8, 7, 6>>, <<3, 4, 5>>, <<2, 1, 0>> >>
      [] m.first_pixel = "bottom_right" /\ m.arrangement = "rows"
            /\ m.wiring = "linear" ->
                << <<8, 7, 6>>, <<5, 4, 3>>, <<2, 1, 0>> >>
      [] m.first_pixel = "bottom_right" /\ m.arrangement = "columns"
            /\ m.wiring = "serpentine" ->
                << <<8, 3, 2>>, <<7, 4, 1>>, <<6, 5, 0>> >>
      [] m.first_pixel = "bottom_right" /\ m.arrangement = "columns"
            /\ m.wiring = "linear" ->
                << <<8, 5, 2>>, <<7, 4, 1>>, <<6, 3, 0>> >>

ThreeByThree == params.row_count = 3 /\ params.column_count = 3

\* C8: in a 3x3 matrix, for each of the 16 wiring schemas, the cell returned
\* by indexToCoordinates(i) holds i in the reference grid, and
\* coordinatesToIndex(r, c) returns the number in cell (r, c) of that grid.
C8_GroundTruth ==
    (ThreeByThree /\ geoCall \in {"indexToCoordinates", "coordinatesToIndex"})
        => /\ row < 3
           /\ col < 3
           /\ WiringSchema(params)[row + 1][col + 1] = index

C8_Witness ==
    /\ ThreeByThree
    /\ geoCall = "coordinatesToIndex"
    /\ params.first_pixel = "bottom_right"
    /\ params.arrangement = "columns"
    /\ params.wiring = "serpentine"
    /\ row = 0
    /\ col = 1
    /\ index = 3

Cells(m) == (0..(m.row_count - 1)) \X (0..(m.column_count - 1))

Indices(m) == 0..(Size(m) - 1)

\* C9: indexToCoordinates maps the indices 0..R*C-1 one-to-one onto the
\* cells of the matrix (in range, no cell twice, none missed), and
\* canonicalIndex is a permutation of 0..R*C-1.
C9_Bijection ==
    /\ \A p \in Indices(params) : indexToCoordinates(params, p) \in Cells(params)
    /\ \A p, q \in Indices(params) :
          indexToCoordinates(params, p) = indexToCoordinates(params, q) => p = q
    /\ \A rc \in Cells(params) :
          \E p \in Indices(params) : indexToCoordinates(params, p) = rc
    /\ \A p \in Indices(params) : canonicalIndex(params, p) \in Indices(params)
    /\ \A p, q \in Indices(params) :
          canonicalIndex(params, p) = canonicalIndex(params, q) => p = q
    /\ geoCall \in {"indexToCoordinates", "canonicalIndex"} =>
          << row, col >> \in Cells(params)
    /\ geoCall = "canonicalIndex" => canonical \in Indices(params)

C9_Witness ==
    /\ geoCall = "canonicalIndex"
    /\ params.row_count = 2
    /\ params.column_count = 4
    /\ params.arrangement = "columns"
    /\ params.wiring = "serpentine"
    /\ canonical # index
    /\ canonical \in Indices(params)

\* The row, column, arrangement and wiring fields of m and of k are equal.
SameShape(m, k) ==
    /\ m.row_count = k.row_count
    /\ m.column_count = k.column_count
    /\ m.arrangement = k.arrangement
    /\ m.wiring = k.wiring

\* C28: for every shape and configuration, if index p was at (r, c), after
\* flipVertical() it is at (R - 1 - r, c) and after flipHorizontal() at
\* (r, C - 1 - c); each flip called twice restores the parameters, and
\* neither changes row_count, column_count, arrangement or wiring.
C28_Flips ==
    (geoCall \in {"flipVertical", "flipHorizontal"}) =>
        /\ SameShape(params, paramsBefore)
        /\ (repeat = 1) =>
               \A p \in Indices(params) :
                   LET was == indexToCoordinates(paramsBefore, p)
                   IN  indexToCoordinates(params, p) =
                           IF geoCall = "flipVertical"
                           THEN << INV(params.row_count, was[1]), was[2] >>
                           ELSE << was[1], INV(params.column_count, was[2]) >>
        /\ (repeat = 2) => params = paramsBefore

\* A serpentine 3 x 4 matrix wired by columns from the bottom right corner
\* has been flipped vertically once.
C28_Witness ==
    /\ geoCall = "flipVertical"
    /\ repeat = 1
    /\ paramsBefore = [row_count |-> 3, column_count |-> 4,
                       first_pixel |-> "bottom_right",
                       arrangement |-> "columns", wiring |-> "serpentine"]
    /\ params = [paramsBefore EXCEPT !.first_pixel = "top_right"]

\* C29: for every square matrix of N rows and configuration, if index p
\* was at (r, c), after rotate90clockwise() it is at (c, N - 1 - r); four
\* calls in a row restore the parameters.
C29_Rotation ==
    (geoCall = "rotate90clockwise"
        /\ params.row_count = params.column_count) =>
        /\ (repeat = 1) =>
               \A p \in Indices(params) :
                   LET was == indexToCoordinates(paramsBefore, p)
                   IN  indexToCoordinates(params, p) =
                           << was[2], INV(params.row_count, was[1]) >>
        /\ (repeat = 4) => params = paramsBefore

\* A serpentine 3 x 3 matrix wired by rows from the top left corner has
\* been rotated once.
C29_Witness ==
    /\ geoCall = "rotate90clockwise"
    /\ repeat = 1
    /\ paramsBefore = [row_count |-> 3, column_count |-> 3,
                       first_pixel |-> "top_left",
                       arrangement |-> "rows", wiring |-> "serpentine"]
    /\ params = [paramsBefore EXCEPT !.first_pixel = "top_right",
                                     !.arrangement = "columns"]

\* ------------------------------------------------------------------------
\* PixelVector: shift of a window of elements
\* ------------------------------------------------------------------------

MaxLen == 4

ExtraCount == 1

MaxCalls == 2

\* Width of PixelVector::size_type, in bits.
SizeBits == 32

\* The largest size_type value, 2^SizeBits - 1.  It is only compared with
\* other values, so any number above every size of the model stands for it.
SizeMax == 2147483647

\* A vector of n elements, each of a different colour.
Vector(n) == [i \in 1..n |-> i]

RECURSIVE GCD(_, _)
GCD(a, b) == IF b = 0 THEN a ELSE GCD(b, a % b)

\* 2^bits modulo n.
RECURSIVE Pow2Mod(_, _)
Pow2Mod(bits, n) == IF bits = 0 THEN 1 % n ELSE (2 * Pow2Mod(bits - 1, n)) % n

\* (a - b) % n in size_type arithmetic: a - b wraps to 2^SizeBits - (b - a)
\* when b > a.
USubMod(a, b, n) ==
    IF a >= b
    THEN (a - b) % n
    ELSE (Pow2Mod(SizeBits, n) + n - ((b - a) % n)) % n

\* size() - 1 computed as size(): the clamp lands one past the last element.
LastIndex_Size(buf) == Len(buf)

\* size() - 1 in size_type arithmetic.
LastIndex(buf) == IF Len(buf) = 0 THEN SizeMax ELSE Len(buf) - 1

\* The value read by an access outside the vector (never stored by it).
Unknown == -1

\* (*this)[i]; operator[] makes no bound check, so a read outside the
\* vector returns a value that is not one of its elements.
At(buf, i) == IF i < Len(buf) THEN buf[i + 1] ELSE Unknown

\* Number of elements of the window in the "shift down" branch.
WindowSize(from_index, to_index) == from_index - to_index + 1

\* The while (true) loop: follows one cycle from current until the next
\* index is start again.  Returns the elements and the last index visited.
RECURSIVE InnerLoop(_, _, _, _, _, _)
InnerLoop(buf, start, current, n, count, to_index) ==
    LET sum == current + count
        next_index == IF sum >= n THEN sum - n ELSE sum
    IN  IF next_index = start
        THEN [buf |-> buf, current |-> current]
        ELSE InnerLoop(
                 [buf EXCEPT ![current + to_index + 1] =
                                 At(buf, next_index + to_index)],
                 start, next_index, n, count, to_index)

\* Variant of OneCycle that never stores the saved element.
OneCycle_DropsSaved(buf, start, n, count, to_index) ==
    InnerLoop(buf, start, start, n, count, to_index).buf

\* One iteration of the for loop: saves the first element of the cycle,
\* moves the others and stores the saved element in the last position.
OneCycle(buf, start, n, count, to_index) ==
    LET temp == At(buf, start + to_index)
        done == InnerLoop(buf, start, start, n, count, to_index)
    IN  [done.buf EXCEPT ![done.current + to_index + 1] = temp]

RECURSIVE CycleLoop(_, _, _, _, _, _)
CycleLoop(buf, start, num_cycles, n, count, to_index) ==
    IF start < num_cycles
    THEN CycleLoop(OneCycle(buf, start, n, count, to_index),
                   start + 1, num_cycles, n, count, to_index)
    ELSE buf

\* PixelVector::shift
RECURSIVE shift(_, _, _, _)
shift(buf, from_arg, to_arg, count_arg) ==
    LET from_index == IF from_arg >= Len(buf) THEN LastIndex(buf) ELSE from_arg
        to_index == IF to_arg >= Len(buf) THEN LastIndex(buf) ELSE to_arg
    IN  IF from_index > to_index
        THEN LET n == WindowSize(from_index, to_index)
                 count == count_arg % n
             IN  IF count > 0
                 THEN CycleLoop(buf, 0, GCD(n, count), n, count, to_index)
                 ELSE buf
        ELSE IF from_index < to_index
        THEN LET n == to_index - from_index + 1
                 equivalent == USubMod(n, count_arg, n)
             IN  shift(buf, to_index, from_index, equivalent)
        ELSE buf

\* The indices that the while (true) loop reads or writes.
RECURSIVE InnerAccess(_, _, _, _, _)
InnerAccess(start, current, n, count, to_index) ==
    LET sum == current + count
        next_index == IF sum >= n THEN sum - n ELSE sum
    IN  IF next_index = start
        THEN {current + to_index}
        ELSE {current + to_index, next_index + to_index}
                 \cup InnerAccess(start, next_index, n, count, to_index)

\* The indices that the for loop reads or writes.
RECURSIVE CycleAccess(_, _, _, _, _)
CycleAccess(start, num_cycles, n, count, to_index) ==
    IF start < num_cycles
    THEN {start + to_index}
             \cup InnerAccess(start, start, n, count, to_index)
             \cup CycleAccess(start + 1, num_cycles, n, count, to_index)
    ELSE {}

\* The indices of the vector that PixelVector::shift reads or writes.
RECURSIVE ShiftAccess(_, _, _, _)
ShiftAccess(buf, from_arg, to_arg, count_arg) ==
    LET from_index == IF from_arg >= Len(buf) THEN LastIndex(buf) ELSE from_arg
        to_index == IF to_arg >= Len(buf) THEN LastIndex(buf) ELSE to_arg
    IN  IF from_index > to_index
        THEN LET n == WindowSize(from_index, to_index)
                 count == count_arg % n
             IN  IF count > 0
                 THEN CycleAccess(0, GCD(n, count), n, count, to_index)
                 ELSE {}
        ELSE IF from_index < to_index
        THEN LET n == to_index - from_index + 1
                 equivalent == USubMod(n, count_arg, n)
             IN  ShiftAccess(buf, to_index, from_index, equivalent)
        ELSE {}

\* PixelVector::operator<<
ShiftLeft(buf, count) ==
    IF Len(buf) > 1 THEN shift(buf, Len(buf) - 1, 0, count) ELSE buf

\* PixelVector::operator>>
ShiftRight(buf, count) ==
    IF Len(buf) > 1 THEN shift(buf, 0, Len(buf) - 1, count) ELSE buf

\* A vector of up to MaxLen elements on which no method has been called.
VecInit ==
    /\ pixels \in { Vector(n) : n \in 0..MaxLen }
    /\ original = pixels
    /\ touched = {}
    /\ calls = << >>
    /\ loop = LoopIdle

ShiftCall(from_index, to_index, count) ==
    /\ Len(calls) < MaxCalls
    /\ from_index <= Len(pixels) \/ from_index = SizeMax
    /\ to_index <= Len(pixels) \/ to_index = SizeMax
    /\ count <= Len(pixels) + ExtraCount
    /\ pixels' = shift(pixels, from_index, to_index, count)
    /\ touched' = ShiftAccess(pixels, from_index, to_index, count)
    /\ calls' = Append(calls, [op |-> "shift", from |-> from_index,
                               to |-> to_index, count |-> count])
    /\ UNCHANGED << original, loop >>
    /\ UNCHANGED << arbVars, geoVars, matVars, pixVars,
                    brightVars, stripVars >>

ShiftLeftCall(count) ==
    /\ Len(calls) < MaxCalls
    /\ count <= Len(pixels) + ExtraCount
    /\ pixels' = ShiftLeft(pixels, count)
    /\ touched' = IF Len(pixels) > 1
                  THEN ShiftAccess(pixels, Len(pixels) - 1, 0, count)
                  ELSE {}
    /\ calls' = Append(calls, [op |-> "<<", from |-> Len(pixels) - 1,
                               to |-> 0, count |-> count])
    /\ UNCHANGED << original, loop >>
    /\ UNCHANGED << arbVars, geoVars, matVars, pixVars,
                    brightVars, stripVars >>

ShiftRightCall(count) ==
    /\ Len(calls) < MaxCalls
    /\ count <= Len(pixels) + ExtraCount
    /\ pixels' = ShiftRight(pixels, count)
    /\ touched' = IF Len(pixels) > 1
                  THEN ShiftAccess(pixels, 0, Len(pixels) - 1, count)
                  ELSE {}
    /\ calls' = Append(calls, [op |-> ">>", from |-> 0,
                               to |-> Len(pixels) - 1, count |-> count])
    /\ UNCHANGED << original, loop >>
    /\ UNCHANGED << arbVars, geoVars, matVars, pixVars,
                    brightVars, stripVars >>

InitVec == ArbInit /\ GeoIdle /\ VecInit /\ MatIdle /\ PixIdle /\ BrightIdle /\ StripIdle

NextVec ==
    \/ \E from_index, to_index \in (0..MaxLen) \cup {SizeMax},
          count \in 0..(MaxLen + ExtraCount) :
          ShiftCall(from_index, to_index, count)
    \/ \E count \in 0..(MaxLen + ExtraCount) : ShiftLeftCall(count)
    \/ \E count \in 0..(MaxLen + ExtraCount) : ShiftRightCall(count)

SpecVec == InitVec /\ [][NextVec]_vars

\* One call on a vector on which no method has been called.
NextVecOnce == calls = << >> /\ NextVec

SpecVecOnce == InitVec /\ [][NextVecOnce]_vars

\* ------------------------------------------------------------------------
\* Properties of PixelVector
\* ------------------------------------------------------------------------

\* Number of elements between two indices, both included.
Span(a, b) == IF a >= b THEN a - b + 1 ELSE b - a + 1

\* Two calls of shift on the same window, inside a vector of n elements,
\* with counts k <= n and (w - k) mod w, where w is the size of the window.
ComplementaryShifts(a, b) ==
    /\ a.op = "shift"
    /\ b.op = "shift"
    /\ a.from = b.from
    /\ a.to = b.to
    /\ a.from < Len(original)
    /\ a.to < Len(original)
    /\ a.count <= Len(original)
    /\ b.count = (Span(a.from, a.to) - a.count) % Span(a.from, a.to)

\* operator>>(k) followed by operator<<(k), with k not above the size.
OppositeShifts(a, b) ==
    /\ a.op = ">>"
    /\ b.op = "<<"
    /\ a.count = b.count
    /\ a.count <= Len(original)

\* C10: in a vector of n >= 2 elements, for every window inside it, either
\* direction and every count k <= n, shifting the window by k and then, in
\* the same direction, by (w - k) mod w (w the size of the window) restores
\* every element; so does operator>>(k) followed by operator<<(k).
C10_ShiftInverse ==
    (Len(calls) = 2 /\ Len(original) >= 2)
        => /\ ComplementaryShifts(calls[1], calls[2]) => pixels = original
           /\ OppositeShifts(calls[1], calls[2]) => pixels = original

\* Two calls of shift on the same window, inside the vector.
SameWindow(a, b) ==
    /\ a.op = "shift"
    /\ b.op = "shift"
    /\ a.from = b.from
    /\ a.to = b.to
    /\ a.from < Len(original)
    /\ a.to < Len(original)

\* C11: shifting a window of size n by k and then by j, in the same
\* direction, gives the same elements as shifting it once by (k + j) mod n.
C11_ShiftComposition ==
    (Len(calls) = 2 /\ SameWindow(calls[1], calls[2]))
        => pixels = shift(original, calls[1].from, calls[1].to,
                          (calls[1].count + calls[2].count)
                              % Span(calls[1].from, calls[1].to))

\* C12: a count larger than the window wraps around: for a window of
\* n >= 2 elements and every count k, also above n, shift up (from < to,
\* operator>>) and shift down (from > to, operator<<) give the same
\* buffer as the same operation with count k mod n.
C12_CountWrapsAround ==
    (/\ Len(calls) = 1
     /\ calls[1].from < Len(original)
     /\ calls[1].to < Len(original)
     /\ Span(calls[1].from, calls[1].to) >= 2) =>
        LET c == calls[1]
        IN  pixels = shift(original, c.from, c.to,
                           c.count % Span(c.from, c.to))


\* An index argument as the claim reads it: size() - 1 when it is not below
\* size().
Clamped(i, size) == IF i >= size THEN size - 1 ELSE i

\* C13: a call of shift reads and writes only indices below size(), keeps
\* the size and stores no foreign value; an index not below size() acts as
\* size() - 1; the call changes nothing in a vector of 0 or 1 elements and
\* when from_index = to_index.
C13_ShiftStaysInside ==
    (Len(calls) = 1 /\ calls[1].op = "shift")
        => LET size == Len(original)
               c == calls[1]
           IN  /\ touched \subseteq 0..(size - 1)
               /\ Len(pixels) = size
               /\ Range(pixels) = Range(original)
               /\ size <= 1 => pixels = original
               /\ c.from = c.to => pixels = original
               /\ size >= 1 =>
                     pixels = shift(original, Clamped(c.from, size),
                                    Clamped(c.to, size), c.count)

\* shift((size_t)-1, 0, 1) on four elements moves every element one index
\* down and the first one to the end.
C13_Witness ==
    /\ Len(calls) = 1
    /\ calls[1] = [op |-> "shift", from |-> SizeMax, to |-> 0, count |-> 1]
    /\ original = Vector(4)
    /\ pixels = << 2, 3, 4, 1 >>
    /\ touched = 0..3

\* A call with both indices inside the vector and a count that is not
\* above the size of the window.
InsideCall(c) ==
    /\ c.from >= 0
    /\ c.to >= 0
    /\ c.from < Len(original)
    /\ c.to < Len(original)
    /\ c.count <= Span(c.from, c.to)

\* C26: for every buffer, window [lo, hi] of n elements and count k <= n,
\* shift is the reference rotation: with from > to the new element at
\* lo + i is the old element at lo + ((i + k) mod n), with from < to the
\* old element at lo + i ends up at lo + ((i + k) mod n); the elements
\* outside the window and the size of the buffer do not change.
C26_ReferenceRotation ==
    (Len(calls) = 1 /\ InsideCall(calls[1])) =>
        LET c == calls[1]
            lo == IF c.from < c.to THEN c.from ELSE c.to
            hi == IF c.from < c.to THEN c.to ELSE c.from
            n == hi - lo + 1
        IN  /\ Len(pixels) = Len(original)
            /\ \A j \in 0..(Len(original) - 1) :
                   (j < lo \/ j > hi) => pixels[j + 1] = original[j + 1]
            /\ \A i \in 0..(n - 1) :
                   IF c.from > c.to
                   THEN pixels[lo + i + 1]
                          = original[lo + ((i + c.count) % n) + 1]
                   ELSE pixels[lo + ((i + c.count) % n) + 1]
                          = original[lo + i + 1]

\* {1,2,3,4}: shift(1, 3, 1) moves the window {2,3,4} toward higher indices.
C26_Witness ==
    /\ calls = << [op |-> "shift", from |-> 1, to |-> 3, count |-> 1] >>
    /\ original = << 1, 2, 3, 4 >>
    /\ pixels = << 1, 4, 2, 3 >>

\* ------------------------------------------------------------------------
\* PixelVector::shift, "shift down" branch: the rotation loops step by step
\* ------------------------------------------------------------------------

\* Bound: the largest window rotated step by step.
MaxWindow == 6

\* Bound: the largest first index of that window.
MaxOffset == 1

\* Variant of NumCycles: a single cycle whatever the count.
NumCycles_Single(n, count) == 1

\* num_cycles = ::std::gcd(n, shift)
NumCycles(n, count) == GCD(n, count)

\* next_index = current + shift; if (next_index >= n) next_index -= n;
NextIndex(current, count, n) ==
    IF current + count >= n THEN (current + count) - n ELSE current + count

\* The state of the loops when the for loop is entered: window of n
\* elements from to_index on, reduced count shift with 0 < shift < n.
LoopEntered(n, count, to_index) ==
    [pc |-> "for", n |-> n, shift |-> count, to_index |-> to_index,
     buf |-> Vector(to_index + n), num_cycles |-> NumCycles(n, count),
     start |-> 0, current |-> 0, temp |-> Unknown, written |-> << >>]

\* for (start = 0; start < num_cycles; ++start): the test, and the two
\* statements before the while loop.
ForStep ==
    /\ loop.pc = "for"
    /\ IF loop.start < loop.num_cycles
       THEN loop' = [loop EXCEPT
                        !.temp = At(loop.buf, loop.start + loop.to_index),
                        !.current = loop.start,
                        !.pc = "while"]
       ELSE loop' = [loop EXCEPT !.pc = "done"]
    /\ UNCHANGED << pixels, original, touched, calls >>
    /\ UNCHANGED << arbVars, geoVars, matVars, pixVars,
                    brightVars, stripVars >>

\* One iteration of while (true); on break, the statement after the loop
\* and ++start.
WhileStep ==
    /\ loop.pc = "while"
    /\ LET next_index == NextIndex(loop.current, loop.shift, loop.n)
           target == loop.current + loop.to_index
       IN  IF next_index = loop.start
           THEN loop' = [loop EXCEPT
                            !.buf[target + 1] = loop.temp,
                            !.written = Append(loop.written, target),
                            !.start = loop.start + 1,
                            !.pc = "for"]
           ELSE loop' = [loop EXCEPT
                            !.buf[target + 1] =
                                At(loop.buf, next_index + loop.to_index),
                            !.written = Append(loop.written, target),
                            !.current = next_index]
    /\ UNCHANGED << pixels, original, touched, calls >>
    /\ UNCHANGED << arbVars, geoVars, matVars, pixVars,
                    brightVars, stripVars >>

InitLoop ==
    /\ ArbInit /\ GeoIdle /\ MatIdle /\ PixIdle /\ BrightIdle /\ StripIdle
    /\ pixels = << >>
    /\ original = << >>
    /\ touched = {}
    /\ calls = << >>
    /\ \E n \in 2..MaxWindow, count \in 1..(MaxWindow - 1),
          to_index \in 0..MaxOffset :
          /\ count < n
          /\ loop = LoopEntered(n, count, to_index)

NextLoop == ForStep \/ WhileStep

\* The loops are sequential code: a statement that can run does run.
SpecLoop == InitLoop /\ [][NextLoop]_vars /\ WF_vars(NextLoop)

\* The greatest common divisor of a and b, by its definition.
Divisors(a) == { d \in 1..a : a % d = 0 }

GreatestCommonDivisor(a, b) ==
    CHOOSE d \in Divisors(a) \cap Divisors(b) :
        \A e \in Divisors(a) \cap Divisors(b) : e <= d

\* How many times index i has been written.
Writes(i) == Cardinality({ w \in 1..Len(loop.written) : loop.written[w] = i })

\* When the loops are over: gcd(n, shift) cycles have run, every position
\* of the window has been written once, nothing else has been written, and
\* the window is rotated by shift.
C27_AllWrittenOnce ==
    (loop.pc = "done") =>
        /\ loop.start = GreatestCommonDivisor(loop.n, loop.shift)
        /\ \A i \in 0..(Len(loop.buf) - 1) :
               Writes(i) = IF i >= loop.to_index THEN 1 ELSE 0
        /\ \A w \in 1..Len(loop.written) : loop.written[w] < Len(loop.buf)
        /\ loop.buf = shift(Vector(Len(loop.buf)),
                            Len(loop.buf) - 1, loop.to_index, loop.shift)

\* Inside the while loop the current index is an index of the cycle of
\* start: it is inside the window and start is the least index of it.
C27_InsideCycle ==
    (loop.pc = "while") =>
        /\ loop.start <= loop.current
        /\ loop.current < loop.n
        /\ loop.start < loop.num_cycles

\* C27: the rotation loops of shift terminate for every window of n >= 2
\* elements and reduced count 0 < k < n: gcd(n, k) cycles run, each inner
\* loop comes back to its start index, and every position of the window
\* is written exactly once.
C27_LoopsTerminate ==
    /\ <>(loop.pc = "done")
    /\ [] C27_AllWrittenOnce
    /\ [] C27_InsideCycle

\* A window of 6 elements rotated by 4: two cycles of three elements.
C27_Witness ==
    /\ loop.pc = "done"
    /\ loop.n = 6
    /\ loop.shift = 4
    /\ loop.to_index = 1
    /\ loop.start = 2
    /\ loop.written = << 1, 5, 3, 2, 6, 4 >>

\* ------------------------------------------------------------------------
\* PixelMatrix: a PixelVector with a number of rows and columns
\* ------------------------------------------------------------------------

MaxMatRows == 3

MaxMatCols == 3

MaxCells == 6

White == 16777215

Colors == {Black, White}

\* The shapes that the model gives to a matrix.
Shapes ==
    { rc \in (0..MaxMatRows) \X (0..MaxMatCols) : rc[1] * rc[2] <= MaxCells }

\* The longest list of a nested initializer list: the loop that determines
\* the column size, from list i on.
RECURSIVE ColumnSize(_, _, _)
ColumnSize(init_list, i, size) ==
    IF i > Len(init_list)
    THEN size
    ELSE ColumnSize(init_list, i + 1,
                    IF Len(init_list[i]) > size
                    THEN Len(init_list[i]) ELSE size)

\* The nested initializer lists of the model: each row lists 0 or more
\* white pixels.
InitLists ==
    { init_list \in UNION { [1..n -> { [i \in 1..k |-> White] :
                                         k \in 0..MaxMatCols }] :
                            n \in 0..MaxMatRows } :
        Len(init_list) * ColumnSize(init_list, 1, 0) <= MaxCells }

\* #define Idx(r, c) (((r) * columns) + (c))
Idx(r, c, cols) == (r * cols) + c

\* ::std::vector::resize(count, value): keeps the first elements, appends
\* copies of value.
Resize(buf, count, value) ==
    [i \in 1..count |-> IF i <= Len(buf) THEN buf[i] ELSE value]

\* Variant of MatrixResize that stores the new shape only.
MatrixResize_ShapeOnly(buf, r, c, color) ==
    [rows |-> r, columns |-> c, cells |-> buf]

\* PixelMatrix::resize
MatrixResize(buf, r, c, color) ==
    [rows |-> r, columns |-> c, cells |-> Resize(buf, r * c, color)]

\* PixelMatrix::operator=(const initializer_list_type &): the vector is
\* resized with the default value and every listed pixel is copied to
\* Idx(row, col).
MatrixAssign(buf, init_list) ==
    LET cols == ColumnSize(init_list, 1, 0)
        rws == Len(init_list)
        resized == Resize(buf, rws * cols, Black)
    IN  [rows |-> rws, columns |-> cols,
         cells |-> [i \in 1..(rws * cols) |->
                      LET r == (i - 1) \div cols
                          c == (i - 1) % cols
                      IN  IF c < Len(init_list[r + 1])
                          THEN init_list[r + 1][c + 1]
                          ELSE resized[i]]]

\* PixelMatrix::at: PixelVector::at checks the index against size().
MatrixAt(buf, cols, r, c) ==
    IF Idx(r, c, cols) >= Len(buf)
    THEN [throws |-> TRUE, index |-> NoIndex]
    ELSE [throws |-> FALSE, index |-> Idx(r, c, cols)]

\* PixelMatrix::fill
MatrixFill(buf, color) == [i \in 1..Len(buf) |-> color]

\* Variant of MatrixShiftLeft that shifts the vector as a single window.
MatrixShiftLeft_OneWindow(buf, rws, cols, count) ==
    IF rws > 0 /\ cols > 1
    THEN shift(buf, Len(buf) - 1, 0, count % cols)
    ELSE buf

\* The for loop of operator<<, from row r on.
RECURSIVE ShiftLeftRows(_, _, _, _, _)
ShiftLeftRows(buf, r, rws, cols, count) ==
    IF r < rws
    THEN ShiftLeftRows(
             shift(buf, Idx(r, cols - 1, cols), Idx(r, 0, cols), count),
             r + 1, rws, cols, count)
    ELSE buf

\* PixelMatrix::operator<<
MatrixShiftLeft(buf, rws, cols, count) ==
    IF rws > 0 /\ cols > 1
    THEN ShiftLeftRows(buf, 0, rws, cols, count % cols)
    ELSE buf

\* The for loop of operator>>, from row r on.
RECURSIVE ShiftRightRows(_, _, _, _, _)
ShiftRightRows(buf, r, rws, cols, count) ==
    IF r < rws
    THEN ShiftRightRows(
             shift(buf, Idx(r, 0, cols), Idx(r, cols - 1, cols), count),
             r + 1, rws, cols, count)
    ELSE buf

\* PixelMatrix::operator>>
MatrixShiftRight(buf, rws, cols, count) ==
    IF rws > 0 /\ cols > 1
    THEN ShiftRightRows(buf, 0, rws, cols, count % cols)
    ELSE buf

\* Variant of ScrollUp that shifts by count elements, not by count rows.
ScrollUp_Elements(buf, rws, cols, count) ==
    IF rws > 1 /\ cols > 0
    THEN shift(buf, Len(buf) - 1, 0, count)
    ELSE buf

\* PixelMatrix::scroll_up
ScrollUp(buf, rws, cols, count) ==
    IF rws > 1 /\ cols > 0
    THEN shift(buf, Len(buf) - 1, 0, count * cols)
    ELSE buf

\* PixelMatrix::scroll_down
ScrollDown(buf, rws, cols, count) ==
    IF rws > 1 /\ cols > 0
    THEN shift(buf, 0, Len(buf) - 1, count * cols)
    ELSE buf

\* The methods that move the elements of the matrix.
Scrolls == {"operator<<", "operator>>", "scroll_up", "scroll_down"}

\* The new matrix m is stored and the call is recorded.
Becomes(m, method, args) ==
    /\ rows' = m.rows
    /\ columns' = m.columns
    /\ cells' = m.cells
    /\ cellsBefore' = IF method \in Scrolls THEN cells ELSE << >>
    /\ matCall' = [op |-> method, args |-> args]
    /\ atResult' = NoResult
    /\ UNCHANGED << arbVars, geoVars, vecVars, pixVars,
                    brightVars, stripVars >>

\* PixelMatrix::PixelMatrix()
MatDefaultConstruct ==
    /\ rows' = 0
    /\ columns' = 0
    /\ cells' = Resize(<< >>, 0, Black)
    /\ cellsBefore' = << >>
    /\ matCall' = [op |-> "PixelMatrix()", args |-> << >>]
    /\ atResult' = NoResult
    /\ UNCHANGED << arbVars, geoVars, vecVars, pixVars,
                    brightVars, stripVars >>

\* PixelMatrix::PixelMatrix(rows, columns, color)
MatConstruct(r, c, color) ==
    /\ << r, c >> \in Shapes
    /\ Becomes([rows |-> r, columns |-> c,
                cells |-> Resize(<< >>, r * c, color)],
               "PixelMatrix(rows, columns, color)", << r, c, color >>)

\* PixelMatrix::PixelMatrix(init_list): assigns the list to the new matrix
MatConstructList(init_list) ==
    /\ init_list \in InitLists
    /\ Becomes(MatrixAssign(<< >>, init_list),
               "PixelMatrix(init_list)", << init_list >>)

\* PixelMatrix::operator=(init_list)
MatAssignList(init_list) ==
    /\ init_list \in InitLists
    /\ Becomes(MatrixAssign(cells, init_list),
               "operator=(init_list)", << init_list >>)

\* PixelMatrix::resize(rows, columns, color)
MatResize(r, c, color) ==
    /\ << r, c >> \in Shapes
    /\ Becomes(MatrixResize(cells, r, c, color), "resize", << r, c, color >>)

\* PixelMatrix::fill(color)
MatFill(color) ==
    /\ color \in Colors
    /\ Becomes([rows |-> rows, columns |-> columns,
                cells |-> MatrixFill(cells, color)], "fill", << color >>)

\* PixelMatrix::operator<<(count)
MatShiftLeft(count) ==
    /\ count <= columns + ExtraCount
    /\ Becomes([rows |-> rows, columns |-> columns,
                cells |-> MatrixShiftLeft(cells, rows, columns, count)],
               "operator<<", << count >>)

\* PixelMatrix::operator>>(count)
MatShiftRight(count) ==
    /\ count <= columns + ExtraCount
    /\ Becomes([rows |-> rows, columns |-> columns,
                cells |-> MatrixShiftRight(cells, rows, columns, count)],
               "operator>>", << count >>)

\* PixelMatrix::scroll_up(count)
MatScrollUp(count) ==
    /\ count <= rows + ExtraCount
    /\ Becomes([rows |-> rows, columns |-> columns,
                cells |-> ScrollUp(cells, rows, columns, count)],
               "scroll_up", << count >>)

\* PixelMatrix::scroll_down(count)
MatScrollDown(count) ==
    /\ count <= rows + ExtraCount
    /\ Becomes([rows |-> rows, columns |-> columns,
                cells |-> ScrollDown(cells, rows, columns, count)],
               "scroll_down", << count >>)

\* PixelMatrix::at(row, col)
MatAt(r, c) ==
    /\ matCall' = [op |-> "at", args |-> << r, c >>]
    /\ atResult' = MatrixAt(cells, columns, r, c)
    /\ cellsBefore' = << >>
    /\ UNCHANGED << rows, columns, cells >>
    /\ UNCHANGED << arbVars, geoVars, vecVars, pixVars,
                    brightVars, stripVars >>

InitMat == ArbInit /\ GeoIdle /\ VecIdle /\ MatIdle /\ PixIdle /\ BrightIdle /\ StripIdle

NextMat ==
    \/ MatDefaultConstruct
    \/ \E r \in 0..MaxMatRows, c \in 0..MaxMatCols, color \in Colors :
          MatConstruct(r, c, color)
    \/ \E init_list \in InitLists : MatConstructList(init_list)
    \/ \E init_list \in InitLists : MatAssignList(init_list)
    \/ \E r \in 0..MaxMatRows, c \in 0..MaxMatCols, color \in Colors :
          MatResize(r, c, color)
    \/ \E color \in Colors : MatFill(color)
    \/ \E count \in 0..(MaxMatCols + ExtraCount) : MatShiftLeft(count)
    \/ \E count \in 0..(MaxMatCols + ExtraCount) : MatShiftRight(count)
    \/ \E count \in 0..(MaxMatRows + ExtraCount) : MatScrollUp(count)
    \/ \E count \in 0..(MaxMatRows + ExtraCount) : MatScrollDown(count)
    \/ \E r \in 0..MaxMatRows, c \in 0..MaxMatCols : MatAt(r, c)

SpecMat == InitMat /\ [][NextMat]_vars

\* ------------------------------------------------------------------------
\* Properties of PixelMatrix
\* ------------------------------------------------------------------------

\* C14: after any sequence of constructors, initializer-list assignments,
\* resize, fill, operator<<, operator>>, scroll_up and scroll_down, the
\* number of elements is row_count() * column_count().
C14_SizeIsRowsTimesColumns == Len(cells) = rows * columns

\* A matrix of 2 x 2 white pixels resized to 3 x 2 with black.
C14_Witness ==
    /\ matCall = [op |-> "resize", args |-> << 3, 2, Black >>]
    /\ rows = 3
    /\ columns = 2
    /\ cells = << White, White, White, White, Black, Black >>

\* The element of cell (r, c) of a matrix of cols columns.
Cell(buf, cols, r, c) == buf[Idx(r, c, cols) + 1]

\* C15: operator<<(k) rotates each row to the left, cell (r, c) holding
\* afterwards the former cell (r, (c + k) mod C); operator>>(k) puts the
\* former cell (r, c) at (r, (c + k) mod C); the shape does not change.
C15_RowsRotate ==
    (matCall.op \in {"operator<<", "operator>>"}) =>
        LET k == matCall.args[1]
        IN  /\ Len(cells) = Len(cellsBefore)
            /\ Len(cells) = rows * columns
            /\ \A r \in 0..(rows - 1), c \in 0..(columns - 1) :
                  IF matCall.op = "operator<<"
                  THEN Cell(cells, columns, r, c)
                         = Cell(cellsBefore, columns, r, (c + k) % columns)
                  ELSE Cell(cells, columns, r, (c + k) % columns)
                         = Cell(cellsBefore, columns, r, c)

\* {{W,B,B},{W,W,B}} << 1 gives {{B,B,W},{W,B,W}}.
C15_Witness ==
    /\ matCall = [op |-> "operator<<", args |-> << 1 >>]
    /\ rows = 2
    /\ columns = 3
    /\ cellsBefore = << White, Black, Black, White, White, Black >>
    /\ cells = << Black, Black, White, White, Black, White >>

\* A scroll of at most rows rows on a matrix of two rows or more.
ScrollCase(call) ==
    /\ call.op \in {"scroll_up", "scroll_down"}
    /\ rows >= 2
    /\ call.args[1] <= rows

\* The rows after scroll_up(k) or scroll_down(k), against those before.
C16_RowsMoved ==
    ScrollCase(matCall) =>
        LET k == matCall.args[1]
        IN  /\ Len(cells) = Len(cellsBefore)
            /\ Len(cells) = rows * columns
            /\ \A r \in 0..(rows - 1), c \in 0..(columns - 1) :
                  IF matCall.op = "scroll_up"
                  THEN Cell(cells, columns, r, c)
                         = Cell(cellsBefore, columns, (r + k) % rows, c)
                  ELSE Cell(cells, columns, (r + k) % rows, c)
                         = Cell(cellsBefore, columns, r, c)

\* scroll_down(k) called right after scroll_up(k) gives back the elements
\* that scroll_up(k) found.
C16_DownUndoesUp ==
    (/\ ScrollCase(matCall)
     /\ matCall.op = "scroll_up"
     /\ matCall'.op = "scroll_down"
     /\ matCall'.args = matCall.args) => cells' = cellsBefore

\* C16: for a matrix of R >= 2 rows and 0 <= k <= R, scroll_up(k) leaves in
\* row r the former row (r + k) mod R, scroll_down(k) puts the former row r
\* at (r + k) mod R, and scroll_up(k) followed by scroll_down(k) restores
\* the matrix.
C16_Scroll == [] C16_RowsMoved /\ [][C16_DownUndoesUp]_vars

\* {{W,B},{W,W},{B,B}} scrolled up by one row is {{W,W},{B,B},{W,B}}.
C16_Witness ==
    /\ matCall = [op |-> "scroll_up", args |-> << 1 >>]
    /\ rows = 3
    /\ columns = 2
    /\ cellsBefore = << White, Black, White, White, Black, Black >>
    /\ cells = << White, White, Black, Black, White, Black >>

\* C17: at(row, col) is bounds-checked on both coordinates: it throws
\* whenever row >= R or col >= C, never returns a pixel of another row,
\* and in range it returns the element at row * C + col.
C17_AtIsBoundChecked ==
    (matCall.op = "at") =>
        LET r == matCall.args[1]
            c == matCall.args[2]
        IN  IF r >= rows \/ c >= columns
            THEN atResult.throws
            ELSE atResult = [throws |-> FALSE, index |-> (r * columns) + c]

\* The pixel of row r, column c of an initializer list, black when the
\* row is shorter.
Listed(init_list, r, c) ==
    IF c < Len(init_list[r + 1]) THEN init_list[r + 1][c + 1] ELSE Black

\* C18: constructing or assigning a matrix from a nested initializer list
\* gives as many rows as the list, as many columns as its longest row, the
\* listed pixels at their cells and black at the missing trailing cells,
\* also when the matrix assigned to holds non-black pixels.
C18_MissingPixelsAreBlack ==
    (matCall.op \in {"PixelMatrix(init_list)", "operator=(init_list)"}) =>
        LET init_list == matCall.args[1]
        IN  /\ rows = Len(init_list)
            /\ columns = ColumnSize(init_list, 1, 0)
            /\ Len(cells) = rows * columns
            /\ \A r \in 0..(rows - 1), c \in 0..(columns - 1) :
                  Cell(cells, columns, r, c) = Listed(init_list, r, c)

\* ------------------------------------------------------------------------
\* Pixel (Pixel.hpp, Pixel.cpp)
\* ------------------------------------------------------------------------

\* Bound: the channel values of the constructed pixels are the multiples
\* of 255 / ChannelSteps.
ChannelSteps == 2

\* The channel values given to the constructor.
Levels == {(255 * i) \div ChannelSteps : i \in 0..ChannelSteps}

\* The brightness factors given to dim (those of PixelTest test3).
DimFactors == {0, 127, 255}

\* The packed RGB value of three channels.
Packed(r, g, b) == (r * 65536) + (g * 256) + b

\* Pixel::Pixel(uint32_t packedRGB): each shift is narrowed to uint8_t.
FromPacked(packedRGB) ==
    [red |-> (packedRGB \div 65536) % 256,
     green |-> (packedRGB \div 256) % 256,
     blue |-> packedRGB % 256]

\* Pixel::max
PixelMax(p) ==
    LET bg == IF p.blue < p.green THEN p.green ELSE p.blue
    IN  IF bg < p.red THEN p.red ELSE bg

\* Pixel::min
PixelMin(p) ==
    LET bg == IF p.green < p.blue THEN p.green ELSE p.blue
    IN  IF p.red < bg THEN p.red ELSE bg

\* The division of int by a positive int: the quotient is truncated
\* towards zero.
CDiv(a, b) == IF a >= 0 THEN a \div b ELSE -((-a) \div b)

\* The remainder of int by a positive int: it has the sign of a.
CRem(a, b) == a - (b * CDiv(a, b))

\* The conversion of an int to unsigned int: its value modulo 2^32.
ToUnsigned(x) == Unsigned((x \div 65536) % 65536, x % 65536)

\* Pixel::hue
hue(p) ==
    LET max_ch == PixelMax(p)
        min_ch == PixelMin(p)
        chroma == max_ch - min_ch
    IN  IF chroma = 0
        THEN ToUnsigned(0)
        ELSE IF p.red = max_ch
        THEN ToUnsigned(CRem(
                 CDiv(CDiv(600 * (p.green - p.blue), chroma), 10), 360))
        ELSE IF p.green = max_ch
        THEN ToUnsigned(CRem(
                 CDiv(CDiv(600 * (p.blue - p.red), chroma), 10) + 120, 360))
        ELSE ToUnsigned(CRem(
                 CDiv(CDiv(600 * (p.red - p.green), chroma), 10) + 240, 360))

\* Variant of dim that multiplies by brightness_factor, not by
\* brightness_factor + 1.
dim_NoIncrement(p, brightness_factor) ==
    LET b == brightness_factor % 65536
    IN  [red |-> ((p.red * b) \div 256) % 256,
         green |-> ((p.green * b) \div 256) % 256,
         blue |-> ((p.blue * b) \div 256) % 256]

\* Pixel::dim: b is uint16_t, each channel is narrowed to uint8_t.
dim(p, brightness_factor) ==
    LET b == (brightness_factor + 1) % 65536
    IN  [red |-> ((p.red * b) \div 256) % 256,
         green |-> ((p.green * b) \div 256) % 256,
         blue |-> ((p.blue * b) \div 256) % 256]

\* Pixel p(packedRGB)
PixConstruct(r, g, b) ==
    /\ pixel' = FromPacked(Packed(r, g, b))
    /\ pixelBefore' = pixel
    /\ pixCall' = [op |-> "Pixel(packedRGB)", arg |-> Packed(r, g, b)]
    /\ hueResult' = Unsigned(0, 0)
    /\ UNCHANGED << arbVars, geoVars, vecVars, matVars,
                    brightVars, stripVars >>

\* p.dim(brightness_factor)
PixDim(brightness_factor) ==
    /\ pixel' = dim(pixel, brightness_factor)
    /\ pixelBefore' = pixel
    /\ pixCall' = [op |-> "dim", arg |-> brightness_factor]
    /\ hueResult' = Unsigned(0, 0)
    /\ UNCHANGED << arbVars, geoVars, vecVars, matVars,
                    brightVars, stripVars >>

\* p.hue()
PixHue ==
    /\ hueResult' = hue(pixel)
    /\ pixelBefore' = pixel
    /\ pixCall' = [op |-> "hue", arg |-> 0]
    /\ UNCHANGED pixel
    /\ UNCHANGED << arbVars, geoVars, vecVars, matVars,
                    brightVars, stripVars >>

InitPix == ArbInit /\ GeoIdle /\ VecIdle /\ MatIdle /\ PixIdle /\ BrightIdle /\ StripIdle

NextPix ==
    \/ \E r, g, b \in Levels : PixConstruct(r, g, b)
    \/ \E brightness_factor \in DimFactors : PixDim(brightness_factor)
    \/ PixHue

SpecPix == InitPix /\ [][NextPix]_vars

\* ------------------------------------------------------------------------
\* Properties of Pixel
\* ------------------------------------------------------------------------

\* The pixel whose three channels are v.
Gray(v) == [red |-> v, green |-> v, blue |-> v]

\* C19: dim(0) turns every pixel into (0,0,0), and dim(255) applied to the
\* full-white pixel (255,255,255) yields (254,254,254).
C19_DimTruncates ==
    (pixCall.op = "dim") =>
        /\ (pixCall.arg = 0 => pixel = Gray(0))
        /\ (pixCall.arg = 255 /\ pixelBefore = Gray(255)
               => pixel = Gray(254))

\* C19, amended: dim(0) turns every pixel into (0,0,0), and dim(255)
\* leaves the full-white pixel (255,255,255), like every pixel, as it was.
C19_DimExact ==
    (pixCall.op = "dim") =>
        /\ (pixCall.arg = 0 => pixel = Gray(0))
        /\ (pixCall.arg = 255 /\ pixelBefore = Gray(255)
               => pixel = Gray(255))
        /\ (pixCall.arg = 255 => pixel = pixelBefore)

\* dim(255) was called on the full-white pixel.
C19_Witness ==
    /\ pixCall = [op |-> "dim", arg |-> 255]
    /\ pixelBefore = Gray(255)
    /\ pixel = Gray(255)

\* C20: for every pixel, hue() returns a value in the range 0..359.
C20_HueInRange ==
    (pixCall.op = "hue") => (hueResult.hi = 0 /\ hueResult.lo <= 359)

\* ------------------------------------------------------------------------
\* LEDStrip::brightness (LEDStrip.cpp)
\* ------------------------------------------------------------------------

\* Bound: the values given to brightness(v) are the multiples of
\* 255 / BrightSteps.
BrightSteps == 15

BrightValues == {(255 * i) \div BrightSteps : i \in 0..BrightSteps}

\* The conversion of an int to uint8_t.
ToUint8(x) == x % 256

\* The conversion of an int to uint16_t.
ToUint16(x) == x % 65536

\* Variant of StoredBrightness that keeps the sum in 8 bits.
StoredBrightness_Uint8(value) == ToUint8(value + 1)

\* _impl->brightness = value + 1
StoredBrightness(value) == ToUint16(value + 1)

\* uint8_t LEDStrip::brightness()
BrightnessGet ==
    /\ brightCall' = [op |-> "brightness()", arg |-> 0,
                      result |-> ToUint8(brightness - 1)]
    /\ UNCHANGED << brightness, valueSet, valueBefore >>
    /\ UNCHANGED << arbVars, geoVars, vecVars, matVars, pixVars, stripVars >>

\* uint8_t LEDStrip::brightness(uint8_t value)
BrightnessSet(value) ==
    /\ brightCall' = [op |-> "brightness(value)", arg |-> value,
                      result |-> ToUint8(brightness - 1)]
    /\ brightness' = StoredBrightness(value)
    /\ valueSet' = value
    /\ valueBefore' = valueSet
    /\ UNCHANGED << arbVars, geoVars, vecVars, matVars, pixVars, stripVars >>

InitBright ==
    ArbInit /\ GeoIdle /\ VecIdle /\ MatIdle /\ PixIdle /\ BrightIdle /\ StripIdle

NextBright ==
    \/ BrightnessGet
    \/ \E value \in BrightValues : BrightnessSet(value)

SpecBright == InitBright /\ [][NextBright]_vars

\* ------------------------------------------------------------------------
\* LEDStrip::show and pixels_rmt_encoder (LEDStrip.cpp)
\* ------------------------------------------------------------------------

\* Bound: the largest pixel count of a strip; a PixelVector shown on it has
\* up to MaxPixels + 1 pixels.
MaxPixels == 4

symbols_per_byte == 8

symbols_per_pixel == 3 * symbols_per_byte

mem_block_symbols == 64

\* The free space offered to a callback: the encoder is created with
\* min_chunk_size = symbols_per_pixel.
FreeSizes ==
    {symbols_per_pixel, (2 * symbols_per_pixel) - 1, 2 * symbols_per_pixel,
     mem_block_symbols}

PixelFormats == {"RGB", "RBG", "GRB", "GBR", "BRG", "BGR"}

PixelDrivers == [pixelFormat : PixelFormats, msbFirst : BOOLEAN]

\* basicLedStriParameters and basicReversedLedStriParameters with
\* column_count = pixelCount, as set by LEDStrip(pixelCount, ...).
StripParameters(pixelCount, reversed) ==
    [row_count |-> 1, column_count |-> pixelCount,
     first_pixel |-> IF reversed THEN "bottom_right" ELSE "top_left",
     arrangement |-> "rows", wiring |-> "linear"]

\* The parameters of the strips and of the 2 x 2 matrices.
LedParameters ==
    {StripParameters(pixelCount, reversed) :
         pixelCount \in 1..MaxPixels, reversed \in BOOLEAN}
    \cup {m \in MatrixParameters : m.row_count = 2 /\ m.column_count = 2}

\* A PixelVector of n pixels, all different in every channel.
Buffer(n) ==
    [i \in 1..n |-> [red |-> (16 * i) + 1, green |-> 128 + i,
                     blue |-> 255 - (7 * i)]]

\* What a read outside the buffer may find.
Garbage == {[red |-> 0, green |-> 0, blue |-> 0],
            [red |-> 255, green |-> 255, blue |-> 255]}

\* uint8_t Pixel::byte0(PixelFormat format)
byte0(p, format) ==
    CASE format \in {"BGR", "BRG"} -> p.blue
      [] format \in {"GBR", "GRB"} -> p.green
      [] format \in {"RBG", "RGB"} -> p.red

\* uint8_t Pixel::byte1(PixelFormat format)
byte1(p, format) ==
    CASE format \in {"RBG", "GBR"} -> p.blue
      [] format \in {"BGR", "RGB"} -> p.green
      [] format \in {"BRG", "GRB"} -> p.red

\* uint8_t Pixel::byte2(PixelFormat format)
byte2(p, format) ==
    CASE format \in {"GRB", "RGB"} -> p.blue
      [] format \in {"BRG", "RBG"} -> p.green
      [] format \in {"GBR", "BGR"} -> p.red

\* (1 << bitIndex) & byte: 1 for the symbol bit1, 0 for the symbol bit0.
BitAt(byte, bitIndex) == (byte \div (2 ^ bitIndex)) % 2

\* Variant of ByteSymbols that always starts with the least significant bit.
ByteSymbols_LsbFirst(byte, msbFirst) ==
    [k \in 1..symbols_per_byte |-> BitAt(byte, k - 1)]

\* The inner while loop: bitIndex runs from symbols_per_byte - 1 down to 0
\* when msbFirst, from 0 up to symbols_per_byte - 1 otherwise.
ByteSymbols(byte, msbFirst) ==
    [k \in 1..symbols_per_byte |->
        BitAt(byte, IF msbFirst THEN symbols_per_byte - k ELSE k - 1)]

\* byte[i] = (channel * instance->brightness) >> 8, narrowed to uint8_t
Scaled(channel, factor) == ToUint8((channel * factor) \div 256)

\* pixel_ptr[canonicalIndex]: an index outside the buffer (negative values
\* stand for the size_t values above SizeMax) reads whatever is there.
PixelRead(buf, i, garbage) ==
    IF i >= 0 /\ i < Len(buf) THEN buf[i + 1] ELSE garbage

\* The body of the outer while loop for one pixel: 24 symbols.
PixelSymbols(p, drv, factor) ==
    ByteSymbols(Scaled(byte0(p, drv.pixelFormat), factor), drv.msbFirst)
    \o ByteSymbols(Scaled(byte1(p, drv.pixelFormat), factor), drv.msbFirst)
    \o ByteSymbols(Scaled(byte2(p, drv.pixelFormat), factor), drv.msbFirst)

\* The outer while loop of pixels_rmt_encoder: the transaction after the
\* pixels that fit in symbols_free are encoded.
RECURSIVE EncodeLoop(_, _, _, _, _, _, _, _)
EncodeLoop(t, symbols_free, total, m, drv, factor, buf, garbage) ==
    IF symbols_free >= symbols_per_pixel /\ t.symbols_written < total
    THEN LET pixelIndex == t.symbols_written \div symbols_per_pixel
             ci == canonicalIndex(m, pixelIndex)
             p == PixelRead(buf, ci, garbage)
         IN  EncodeLoop(
                 [t EXCEPT !.symbols = @ \o PixelSymbols(p, drv, factor),
                           !.symbols_written = @ + symbols_per_pixel,
                           !.reads = @ \cup {<< pixelIndex, ci >>}],
                 symbols_free - symbols_per_pixel, total, m, drv, factor,
                 buf, garbage)
    ELSE t

\* pixels_rmt_encoder(data, data_size, symbols_written, symbols_free, ...)
pixels_rmt_encoder(t, symbols_free, m, drv, factor, buf, garbage) ==
    LET total_symbol_count == (Len(buf) * 3) * symbols_per_byte
    IN  IF t.symbols_written >= total_symbol_count
        THEN [t EXCEPT !.done = TRUE, !.returned = 0, !.overrun = FALSE,
                       !.reads = {}, !.state = "done"]
        ELSE LET after == EncodeLoop([t EXCEPT !.reads = {}], symbols_free,
                                     total_symbol_count, m, drv, factor,
                                     buf, garbage)
                 written == after.symbols_written - t.symbols_written
             IN  [after EXCEPT !.returned = written,
                               !.overrun = written > symbols_free]

\* The positions of the chain a callback encodes.
Encoded(t, symbols_free, buf) ==
    { q \in 0..(Len(buf) - 1) :
        /\ q >= t.symbols_written \div symbols_per_pixel
        /\ q < (t.symbols_written + symbols_free) \div symbols_per_pixel }

\* LEDStrip::show(pixels): rmt_transmit starts a transaction on the buffer.
Show(n) ==
    /\ tx.state \in {"idle", "done"}
    /\ data' = Buffer(n)
    /\ tx' = [TxIdle EXCEPT !.state = "sending"]
    /\ UNCHANGED driver
    /\ UNCHANGED << arbVars, geoVars, vecVars, matVars, pixVars, brightVars >>

\* The RMT driver calls the encoder until it reports done.
EncoderCall(symbols_free, garbage) ==
    /\ tx.state = "sending"
    /\ tx' = pixels_rmt_encoder(tx, symbols_free, params, driver,
                                brightness, data, garbage)
    /\ UNCHANGED << driver, data >>
    /\ UNCHANGED << arbVars, geoVars, vecVars, matVars, pixVars, brightVars >>

\* assert(index < (row_count * column_count)) of indexToCoordinates fails
\* in a build with assertions: the program is aborted.
EncoderAbort(symbols_free) ==
    /\ tx.state = "sending"
    /\ \E q \in Encoded(tx, symbols_free, data) : ~(q < Size(params))
    /\ tx' = [tx EXCEPT !.state = "aborted"]
    /\ UNCHANGED << driver, data >>
    /\ UNCHANGED << arbVars, geoVars, vecVars, matVars, pixVars, brightVars >>

\* A strip or a matrix is constructed with a driver, and a brightness set.
InitStrip ==
    /\ ArbInit /\ VecIdle /\ MatIdle /\ PixIdle
    /\ params \in LedParameters
    /\ geoCall = "none"
    /\ index = 0
    /\ row = 0
    /\ col = 0
    /\ canonical = NoIndex
    /\ paramsBefore = params
    /\ repeat = 0
    /\ valueSet \in DimFactors
    /\ valueBefore = 255
    /\ brightness = StoredBrightness(valueSet)
    /\ brightCall = [op |-> "brightness(value)", arg |-> valueSet,
                     result |-> 255]
    /\ driver \in PixelDrivers
    /\ data = << >>
    /\ tx = TxIdle

NextStrip ==
    \/ \E n \in 1..(MaxPixels + 1) : Show(n)
    \/ \E symbols_free \in FreeSizes, garbage \in Garbage :
           EncoderCall(symbols_free, garbage)
    \/ \E symbols_free \in FreeSizes : EncoderAbort(symbols_free)

SpecStrip == InitStrip /\ [][NextStrip]_vars

\* ------------------------------------------------------------------------
\* Properties of LEDStrip
\* ------------------------------------------------------------------------

\* C21: each call of brightness(v) returns the value set by the call
\* before it (255 if none) and brightness() returns the last value set;
\* the stored value + 1 never wraps in 8 bits, so 255 and 0 are returned
\* as they were set.
C21_BrightnessRoundTrip ==
    /\ brightness = valueSet + 1
    /\ brightness \in 1..256
    /\ (brightCall.op = "brightness(value)") =>
           /\ brightCall.result = valueBefore
           /\ brightCall.arg = valueSet
    /\ (brightCall.op = "brightness()") => brightCall.result = valueSet

\* brightness(0) has been called after brightness(255), and returned 255.
C21_Witness ==
    /\ brightCall = [op |-> "brightness(value)", arg |-> 0, result |-> 255]
    /\ valueBefore = 255
    /\ valueSet = 0
    /\ brightness = 1

\* The letters of a pixel format name, as channels.
FormatChannels ==
    [RGB |-> << "red", "green", "blue" >>, RBG |-> << "red", "blue", "green" >>,
     GRB |-> << "green", "red", "blue" >>, GBR |-> << "green", "blue", "red" >>,
     BRG |-> << "blue", "red", "green" >>, BGR |-> << "blue", "green", "red" >>]

\* Symbol s (from 0) of the reference encoding of the buffer.
ReferenceSymbol(s) ==
    LET p == s \div 24
        k == (s % 24) \div 8
        j == s % 8
        source == IF params.row_count = 1 /\ IsRight(params)
                  THEN params.column_count - 1 - p
                  ELSE canonicalIndex(params, p)
        channel == data[source + 1][FormatChannels[driver.pixelFormat][k + 1]]
        byte == (channel * (valueSet + 1)) \div 256
    IN  (byte \div (2 ^ (IF driver.msbFirst THEN 7 - j ELSE j))) % 2

\* A transaction on a buffer of as many pixels as the strip or matrix has.
FullBuffer == tx.state # "idle" /\ Len(data) = Size(params)

\* C22: show works with a PixelVector of any size n: every position p < n
\* that the encoder converts satisfies the precondition p < R * C of
\* canonicalIndex, and the index read, canonicalIndex(p), is below n.
C22_AnySizeWorks ==
    /\ tx.state # "aborted"
    /\ \A rd \in tx.reads :
          /\ rd[1] < Size(params)
          /\ rd[2] >= 0 /\ rd[2] < Len(data)

\* C30: with a buffer of n = R * C pixels and callbacks that each offer at
\* least 24 symbols, the symbols written so far are the first symbols of the
\* reference encoding, 24 per pixel in the order of the chain; no call
\* writes more than symbols_free; a call reports done if and only if the
\* 24 * n symbols were written when it was made.
C30_ReferenceEncoding ==
    FullBuffer =>
        /\ tx.state # "aborted"
        /\ Len(tx.symbols) = tx.symbols_written
        /\ tx.symbols_written % 24 = 0
        /\ tx.symbols_written <= 24 * Len(data)
        /\ \A s \in 1..Len(tx.symbols) : tx.symbols[s] = ReferenceSymbol(s - 1)
        /\ ~tx.overrun
        /\ tx.done <=> (tx.state = "done")
        /\ tx.done => /\ tx.symbols_written = 24 * Len(data)
                      /\ tx.returned = 0
        /\ (tx.state = "sending" /\ tx.symbols_written > 0) => tx.returned > 0

\* A reversed strip of three pixels at half brightness has sent the whole
\* buffer in two callbacks or more, and done was reported.
C30_Witness ==
    /\ params = StripParameters(3, TRUE)
    /\ Len(data) = 3
    /\ valueSet = 127
    /\ driver = [pixelFormat |-> "GRB", msbFirst |-> TRUE]
    /\ tx.done
    /\ tx.symbols_written = 72
    /\ SubSeq(tx.symbols, 1, 8) = << 0, 1, 0, 0, 0, 0, 0, 1 >>

====
